---- MODULE Spec2Model ----
(***************************************************************************)
(* State-machine model of the llm-samplers crate: the Logits container,    *)
(* the built-in samplers, the SamplerChain, the option reflection layer    *)
(* (find_option_definition / set_option / get_option / configure) and the  *)
(* SamplerChainBuilder with its named slots.                               *)
(*                                                                         *)
(* Numbers.  A logit is an integer k standing for the real value k*ln(2),  *)
(* so that exp(logit) = 2^k is exact; a probability is a pair              *)
(* [num, den] of naturals.  Penalties, biases and option values are        *)
(* integers; a fractional parameter (p of a filter) is a pair [num, den].  *)
(***************************************************************************)
EXTENDS Integers, Sequences, FiniteSets, TLC

VARIABLES
    logits,     \* the Logits collection of the caller: [sorted, logits]
    res,        \* the resource provider: [rng, last_tokens]
    ret,        \* outcome of the last call made by the caller
    chain,      \* the SamplerChain: [samplers, token]
    samp,       \* a configurable sampler accessed through the option layer
    builder,    \* the SamplerChainBuilder: sequence of [name, slot]
    hist,       \* history: the object as constructed and the sets applied since
    steps       \* number of calls the caller has made so far

vars == <<logits, res, ret, chain, samp, builder, hist, steps>>

(***************************************************************************)
(* Bounds of the model.                                                    *)
(***************************************************************************)
MaxLen == 3          \* longest fresh Logits collection
MaxSteps == 2        \* sampler calls made on one collection
MaxChain == 2        \* longest SamplerChain
MaxCalls == 2        \* SamplerChain::sample calls on one chain
MaxHistory == 6      \* longest token history

(***************************************************************************)
(* Generic helpers.                                                        *)
(***************************************************************************)
None == <<>>
Some(x) == <<x>>
IsSome(o) == Len(o) = 1
Unwrap(o) == o[1]

Max(a, b) == IF a >= b THEN a ELSE b
Min(a, b) == IF a <= b THEN a ELSE b
Abs(a) == IF a >= 0 THEN a ELSE 0 - a

RECURSIVE Pow2(_)
Pow2(n) == IF n <= 0 THEN 1 ELSE 2 * Pow2(n - 1)

RECURSIVE SumSeq(_)
SumSeq(s) == IF s = <<>> THEN 0 ELSE Head(s) + SumSeq(Tail(s))

Take(s, n) == SubSeq(s, 1, Min(n, Len(s)))

\* Logits are integers.  The two infinities of the float type are the two
\* integers below, and every finite logit the model reaches stays well
\* inside INFINITY / 2; Sat brings the result of an addition or a
\* multiplication that involved an infinity back to that infinity.
INFINITY == 1000
NEG_INFINITY == -1000
Sat(x) ==
    IF 2 * x >= INFINITY THEN INFINITY
    ELSE IF 2 * x <= NEG_INFINITY THEN NEG_INFINITY
    ELSE x

SeqsUpTo(S, n) == UNION {[1..k -> S] : k \in 0..n}

(***************************************************************************)
(* types.rs: Logit, Logits                                                 *)
(***************************************************************************)
ZeroProb == [num |-> 0, den |-> 1]

Logit(tid, l) == [token_id |-> tid, logit |-> l, prob |-> ZeroProb]

\* Logits::try_from_iter: ids by position starting at 0, sorted = false.
\* (NaN is not a value of the model: every integer is a legal logit.)
try_from_iter(vals) ==
    [sorted |-> FALSE,
     logits |-> [i \in 1..Len(vals) |-> Logit(i - 1, vals[i])]]

set_sorted(L, is_sorted) == [L EXCEPT !.sorted = is_sorted]

\* Stable insertion of e into a sequence already in descending logit order:
\* e goes after every entry whose logit is >= its own.
RECURSIVE InsertDesc(_, _)
InsertDesc(s, e) ==
    IF s = <<>> THEN <<e>>
    ELSE IF Head(s).logit >= e.logit THEN <<Head(s)>> \o InsertDesc(Tail(s), e)
    ELSE <<e>> \o s

RECURSIVE SortDesc(_)
SortDesc(s) ==
    IF s = <<>> THEN <<>>
    ELSE InsertDesc(SortDesc(SubSeq(s, 1, Len(s) - 1)), s[Len(s)])

\* Logits::ensure_sorted: stable sort descending by logit unless the flag
\* says the collection is sorted already.
ensure_sorted(L) ==
    IF L.sorted THEN L
    ELSE [sorted |-> TRUE, logits |-> SortDesc(L.logits)]

\* Logits::softmax: p = exp(l - max_l) / sum.  With exp(l) = 2^l the value
\* is 2^(l - lo) / sum over j of 2^(l_j - lo) for any offset lo; the lowest
\* finite logit is used as the offset so that every term is a natural
\* number.
IsInfinite(x) == x = INFINITY \/ x = NEG_INFINITY

MinLogit(s) ==
    CHOOSE m \in {s[i].logit : i \in 1..Len(s)} \ {NEG_INFINITY} :
        \A i \in 1..Len(s) : s[i].logit = NEG_INFINITY \/ m <= s[i].logit

\* exp(l - max_l) of every entry, scaled by 2^(max_l - lo); exp(-inf) = 0.
SoftmaxWeights(s, lo) ==
    [i \in 1..Len(s) |->
        IF s[i].logit = NEG_INFINITY THEN 0 ELSE Pow2(s[i].logit - lo)]

\* The probability NaN: max_l is self[0].logit, and inf - inf is NaN, so
\* is every sum and every quotient a NaN enters.
NaNProb == [num |-> 0, den |-> 0]

\* softmax when self[0].logit is finite and an entry is +inf: that entry
\* has p = inf, cum_sum is inf, inf / inf is NaN and finite / inf is 0.
SoftmaxOverflow(s) ==
    [i \in 1..Len(s) |->
        [s[i] EXCEPT !.prob = IF s[i].logit = INFINITY THEN NaNProb ELSE ZeroProb]]

\* The second pass: every weight divided by cum_sum.
SoftmaxDivide(s, w, cum_sum) ==
    [i \in 1..Len(s) |-> [s[i] EXCEPT !.prob = [num |-> w[i], den |-> cum_sum]]]

SoftmaxNormalize(s, w) == SoftmaxDivide(s, w, SumSeq(w))

SoftmaxSorted(S) ==
    IF IsInfinite(S.logits[1].logit)
    THEN [S EXCEPT !.logits = [i \in 1..Len(@) |-> [@[i] EXCEPT !.prob = NaNProb]]]
    ELSE IF \E i \in 1..Len(S.logits) : S.logits[i].logit = INFINITY
    THEN [S EXCEPT !.logits = SoftmaxOverflow(@)]
    ELSE [S EXCEPT !.logits = SoftmaxNormalize(@, SoftmaxWeights(@, MinLogit(@)))]

softmax(L) ==
    IF L.logits = <<>> THEN L
    ELSE SoftmaxSorted(ensure_sorted(L))

\* Vec::truncate through DerefMut: keeps the first n entries, flag untouched.
truncate(L, n) == [L EXCEPT !.logits = Take(L.logits, n)]

\* Outcome of Sampler::sample: the collection, the sampler and an error.
Ok(L, s) == [ok |-> TRUE, err |-> "", logits |-> L, self |-> s]
Err(e, L, s) == [ok |-> FALSE, err |-> e, logits |-> L, self |-> s]

(***************************************************************************)
(* resource.rs: HasSamplerResources / SimpleSamplerResources               *)
(***************************************************************************)
\* SimpleSamplerResources::new(rng, last_tokens); rng is present or not,
\* last_tokens is an Option of the token history, and the logits resource
\* is absent until set_logits provides one.
SimpleSamplerResources(rng, last_tokens) ==
    [rng |-> rng, last_tokens |-> last_tokens, logits |-> None]

\* SimpleSamplerResources::set_logits
set_logits(self, L) == [self EXCEPT !.logits = L]

\* The slice of the history a sampler looks at: the trailing last_n tokens.
LastN(tokens, last_n) ==
    IF last_n > Len(tokens) THEN tokens
    ELSE SubSeq(tokens, Len(tokens) - last_n + 1, Len(tokens))

Count(tokens, tid) == Cardinality({i \in 1..Len(tokens) : tokens[i] = tid})

(***************************************************************************)
(* samplers/greedy.rs                                                      *)
(***************************************************************************)
SampleGreedy == [kind |-> "greedy", token_id |-> None]

\* Position of the last entry holding the maximum logit.
RECURSIVE GreedyScan_last(_, _, _)
GreedyScan_last(s, i, best) ==
    IF i > Len(s) THEN best
    ELSE GreedyScan_last(s, i + 1, IF s[i].logit >= s[best].logit THEN i ELSE best)

\* Position of the first entry holding the maximum logit.
RECURSIVE GreedyScan(_, _, _)
GreedyScan(s, i, best) ==
    IF i > Len(s) THEN best
    ELSE GreedyScan(s, i + 1, IF s[i].logit > s[best].logit THEN i ELSE best)

SampleGreedy_sample(self, r, L) ==
    IF L.logits = <<>> THEN Ok(L, [self EXCEPT !.token_id = None])
    ELSE Ok(L, [self EXCEPT !.token_id =
                   Some(L.logits[GreedyScan(L.logits, 2, 1)].token_id)])

(***************************************************************************)
(* samplers/flat_bias.rs                                                   *)
(***************************************************************************)
\* bias: sequence of <<token id, bias value>>
SampleFlatBias(bias) == [kind |-> "flat_bias", bias |-> bias]

\* The entry is addressed by position: logits[tid].
RECURSIVE FlatBiasFold(_, _)
FlatBiasFold(s, bias) ==
    IF bias = <<>> THEN s
    ELSE LET tid == Head(bias)[1]
             bv  == Head(bias)[2]
         IN  FlatBiasFold(
                 IF tid >= 0 /\ tid < Len(s)
                 THEN [s EXCEPT ![tid + 1].logit = Sat(@ + bv)]
                 ELSE s,
                 Tail(bias))

SampleFlatBias_sample(self, r, L) ==
    Ok([L EXCEPT !.logits = FlatBiasFold(L.logits, self.bias)], self)

(***************************************************************************)
(* samplers/temperature.rs                                                 *)
(***************************************************************************)
\* temperature = num / den with num in {-1, 0, 1}, so that logit / temperature
\* = logit * den * num stays an integer.
SampleTemperature(temperature) == [kind |-> "temperature", temperature |-> temperature]

SampleTemperature_sample(self, r, L) ==
    LET temp == self.temperature
    IN  IF temp.num # 0
        THEN Ok([L EXCEPT !.logits =
                    [i \in 1..Len(L.logits) |->
                        [L.logits[i] EXCEPT !.logit = Sat(@ * temp.den * temp.num)]]], self)
        ELSE Ok(L, self)

(***************************************************************************)
(* samplers/top_k.rs                                                       *)
(***************************************************************************)
SampleTopK(k, min_keep) == [kind |-> "top_k", k |-> k, min_keep |-> min_keep]

\* sample() takes the collection it works on from the "logits" resource:
\* res.get_resource_mut("logits")? fails when the provider holds none.  The
\* collection passed to the call (logits2) is returned as it came.
SampleTopK_sample(self, r, L) ==
    IF ~IsSome(r.logits)
    THEN Err("MissingResource(dyn_mut(logits))", L, self)
    ELSE Ok(L, self)

\* let k = self.k.max(self.min_keep).min(logits.len());
\* logits.ensure_sorted()?.truncate(k), on the collection of the resource.
TopKTruncate(self, RL) ==
    truncate(ensure_sorted(RL), Min(Max(self.k, self.min_keep), Len(RL.logits)))

\* The resource provider after sample().
SampleTopK_resources(self, r) ==
    IF ~IsSome(r.logits) THEN r
    ELSE [r EXCEPT !.logits = Some(TopKTruncate(self, Unwrap(@)))]

(***************************************************************************)
(* samplers/locally_typical.rs                                             *)
(***************************************************************************)
SampleLocallyTypical(p, min_keep) ==
    [kind |-> "locally_typical", p |-> p, min_keep |-> min_keep]

\* score = | -ln(prob) - ent |.  With prob_i = 2^(d_i) / S and d_i the logit
\* above the lowest one, the score is ln(2)/S * | sum_j 2^(d_j) d_j - S d_i |;
\* the positive factor ln(2)/S does not change the order, so the integer
\* | sum_j num_j d_j - den d_i | is the sort key.
TypicalMean(s, lo) == SumSeq([j \in 1..Len(s) |-> s[j].prob.num * (s[j].logit - lo)])

TypicalKeys(s, lo, mean) ==
    [i \in 1..Len(s) |-> <<s[i], Abs(mean - s[1].prob.den * (s[i].logit - lo))>>]

TypicalScoresFrom(s, lo) == TypicalKeys(s, lo, TypicalMean(s, lo))

\* The entries paired with their scores: sequence of <<entry, score>>.
TypicalScores(s) == TypicalScoresFrom(s, MinLogit(s))

\* Stable sort ascending by score of a sequence of <<entry, score>>.
RECURSIVE InsertAsc(_, _)
InsertAsc(s, e) ==
    IF s = <<>> THEN <<e>>
    ELSE IF Head(s)[2] <= e[2] THEN <<Head(s)>> \o InsertAsc(Tail(s), e)
    ELSE <<e>> \o s

RECURSIVE SortAsc(_)
SortAsc(s) ==
    IF s = <<>> THEN <<>>
    ELSE InsertAsc(SortAsc(SubSeq(s, 1, Len(s) - 1)), s[Len(s)])

\* try_fold over the shifted entries: first idx (0-based) with
\* cum_sum > p and idx >= min_keep breaks with idx + 1.
RECURSIVE TypicalCut(_, _, _, _, _)
TypicalCut(sh, i, cum, p, min_keep) ==
    IF i > Len(sh) THEN Len(sh)
    ELSE LET e == sh[i][1]
             c == cum + e.prob.num
         IN  IF c * p.den > p.num * e.prob.den /\ i - 1 >= min_keep
             THEN i
             ELSE TypicalCut(sh, i + 1, c, p, min_keep)

\* logits.clear() followed by pushing the first last_idx shifted entries.
TypicalKeep(shifted, last_idx) == [i \in 1..last_idx |-> shifted[i][1]]

TypicalFilter(shifted, p, min_keep) ==
    TypicalKeep(shifted, TypicalCut(shifted, 1, 0, p, min_keep))

TypicalApply(self, S) ==
    IF S.logits = <<>> THEN Ok(S, self)
    ELSE Ok([S EXCEPT !.logits =
                TypicalFilter(SortAsc(TypicalScores(@)), self.p,
                              IF self.min_keep = 0 THEN 0 ELSE self.min_keep - 1)],
            self)

SampleLocallyTypical_sample(self, r, L) == TypicalApply(self, softmax(L))

(***************************************************************************)
(* samplers/freq_presence.rs                                               *)
(***************************************************************************)
SampleFreqPresence(frequency_penalty, presence_penalty, last_n) ==
    [kind |-> "freq_presence", frequency_penalty |-> frequency_penalty,
     presence_penalty |-> presence_penalty, last_n |-> last_n]

\* One entry of the counts map applied to the entry of that token id.
FreqPresencePenalize(self, l, cnt) ==
    IF cnt > 0
    THEN [l EXCEPT !.logit =
             Sat(@ - (cnt * self.frequency_penalty + self.presence_penalty))]
    ELSE l

SampleFreqPresence_sample(self, r, L) ==
    IF \/ L.logits = <<>>
       \/ self.last_n = 0
       \/ self.frequency_penalty = 0
       \/ self.presence_penalty = 0
    THEN Ok(L, self)
    ELSE IF ~IsSome(r.last_tokens)
    THEN Err("MissingResource(last_tokens)", L, self)
    ELSE Ok(set_sorted(
                [L EXCEPT !.logits =
                    [i \in 1..Len(@) |->
                        FreqPresencePenalize(self, @[i],
                            Count(LastN(Unwrap(r.last_tokens), self.last_n),
                                  @[i].token_id))]],
                FALSE), self)

(***************************************************************************)
(* samplers/repetition.rs                                                  *)
(***************************************************************************)
\* The penalty applied to one entry whose token id is in the window.
RepetitionPenalize_divide(self, l) ==
    [l EXCEPT !.logit = @ \div self.repetition_penalty]

RepetitionPenalize(self, l) ==
    IF l.logit <= 0
    THEN [l EXCEPT !.logit = Sat(@ * self.repetition_penalty)]
    ELSE IF l.logit = INFINITY THEN l
    ELSE [l EXCEPT !.logit = @ \div self.repetition_penalty]

\* The quotient of every entry the call divides is an integer.
RepetitionExact(self, r, L) ==
    IF ~IsSome(r.last_tokens) \/ self.repetition_penalty <= 1 THEN TRUE
    ELSE \A i \in 1..Len(L.logits) :
             \/ Count(LastN(Unwrap(r.last_tokens), self.last_n), L.logits[i].token_id) = 0
             \/ L.logits[i].logit <= 0
             \/ L.logits[i].logit = INFINITY
             \/ L.logits[i].logit % self.repetition_penalty = 0

SampleRepetition_sample(self, r, L) ==
    IF \/ L.logits = <<>>
       \/ self.last_n = 0
       \/ self.repetition_penalty <= 1
    THEN Ok(L, self)
    ELSE IF ~IsSome(r.last_tokens)
    THEN Err("MissingResource(last_tokens)", L, self)
    ELSE Ok(set_sorted(
                [L EXCEPT !.logits =
                    [i \in 1..Len(@) |->
                        IF Count(LastN(Unwrap(r.last_tokens), self.last_n),
                                 @[i].token_id) > 0
                        THEN RepetitionPenalize(self, @[i])
                        ELSE @[i]]],
                FALSE), self)

(***************************************************************************)
(* samplers/rand_distrib.rs                                                *)
(***************************************************************************)
SampleRandDistrib == [kind |-> "rand_distrib", token_id |-> None]

\* WeightedIndex::new fails when no weight is positive; dist.sample(rng)
\* returns an index of positive weight: draw ranges over those indexes.
RandDistribDraw(self, r, S, draw) ==
    IF \A i \in 1..Len(S.logits) : S.logits[i].prob.num = 0
    THEN Err("RandWeightedError", S, [self EXCEPT !.token_id = None])
    ELSE IF ~r.rng
    THEN Err("MissingResource(rng)", S, [self EXCEPT !.token_id = None])
    ELSE Ok(S, [self EXCEPT !.token_id =
                   Some(S.logits[(draw % Len(S.logits)) + 1].token_id)])

SampleRandDistrib_sample(self, r, L, draw) ==
    IF L.logits = <<>> THEN Ok(L, [self EXCEPT !.token_id = None])
    ELSE RandDistribDraw(self, r, softmax(L), draw)

(***************************************************************************)
(* samplers/sequence_repetition.rs                                         *)
(***************************************************************************)
SampleSeqRepetition(flat_penalty, stacking_penalty, min_length, tolerance, max_merge, last_n) ==
    [kind |-> "seq_repetition", flat_penalty |-> flat_penalty,
     stacking_penalty |-> stacking_penalty, min_length |-> min_length,
     tolerance |-> tolerance, max_merge |-> max_merge, last_n |-> last_n]

\* fuzzy_match: nidx needle elements and hpos hay elements are consumed,
\* window hay elements may still be tried for needle[nidx].  The result is
\* the sequence of <<hidx + 1, nidx + 1>> pushed by the code.
RECURSIVE FuzzyLoop(_, _, _, _, _, _, _, _, _)
FuzzyLoop(hay, needle, min_len, merge_limit, nidx, hpos, window, tolerance, result) ==
    IF nidx >= Len(needle) THEN result
    ELSE IF window > 0
    THEN IF hpos >= Len(hay) THEN result
         ELSE IF hay[hpos + 1] = needle[nidx + 1]
         THEN FuzzyLoop(hay, needle, min_len, merge_limit, nidx + 1, hpos + 1, 1, tolerance,
                        IF nidx + 1 >= min_len
                        THEN Append(result, <<hpos + 1, nidx + 1>>)
                        ELSE result)
         ELSE FuzzyLoop(hay, needle, min_len, merge_limit, nidx, hpos + 1, window - 1,
                        tolerance, result)
    ELSE IF tolerance = 0 THEN result
    ELSE FuzzyLoop(hay, needle, min_len, merge_limit, nidx + 1, hpos, merge_limit + 1,
                   tolerance - 1, result)

fuzzy_match(hay, needle, min_len, tolerance, merge_limit) ==
    FuzzyLoop(hay, needle, min_len, merge_limit, 0, 0, 1, tolerance, <<>>)

\* The matches find_seqs pushes for one hay and one needle length.
\* .filter(|(hidx, _)| hay.len() > needle.len() && hay.len() > hidx + 1):
\* the closure's hidx is the first component of the pair fuzzy_match pushed.
RECURSIVE SeqFilter(_, _, _)
SeqFilter(fm, hay, needle) ==
    IF fm = <<>> THEN <<>>
    ELSE (IF Len(hay) > Len(needle) /\ Len(hay) > Head(fm)[1] + 1
          THEN <<Head(fm)>> ELSE <<>>)
         \o SeqFilter(Tail(fm), hay, needle)

\* SeqMatchResult { h_offs, h_len: hidx + 1, n_len: mlen, seq: &hay[..hidx + 1] }
SeqMatchResults(seq, hay, keep) ==
    [i \in 1..Len(keep) |->
        [h_offs |-> Len(seq) - Len(hay), h_len |-> keep[i][1] + 1,
         n_len |-> keep[i][2], seq |-> SubSeq(hay, 1, keep[i][1] + 1)]]

SeqMatchNeedle(seq, hay, needle, tolerance, max_merge) ==
    IF hay[1] = needle[1]
    THEN SeqMatchResults(seq, hay,
             SeqFilter(fuzzy_match(hay, needle, Len(needle), tolerance, max_merge),
                       hay, needle))
    ELSE <<>>

SeqMatches(seq, hay, nlen, tolerance, max_merge) ==
    SeqMatchNeedle(seq, hay, SubSeq(seq, Len(seq) - nlen + 1, Len(seq)), tolerance, max_merge)

\* Inner loop of find_seqs: needle lengths nlen, nlen + 1, ... for one hay.
RECURSIVE NeedleLoop(_, _, _, _, _, _)
NeedleLoop(seq, hay, min_len, nlen, tolerance, max_merge) ==
    IF Len(seq) >= nlen + min_len
    THEN SeqMatches(seq, hay, nlen, tolerance, max_merge)
         \o (IF nlen + 1 >= Len(hay) THEN <<>>
             ELSE NeedleLoop(seq, hay, min_len, nlen + 1, tolerance, max_merge))
    ELSE <<>>

\* Outer loop of find_seqs: hay = seq[offs..], offs = 0, 1, ...
RECURSIVE HayLoop(_, _, _, _, _)
HayLoop(seq, offs, min_len, tolerance, max_merge) ==
    IF Len(seq) - offs > min_len
    THEN NeedleLoop(seq, SubSeq(seq, offs + 1, Len(seq)), min_len, min_len,
                    tolerance, max_merge)
         \o HayLoop(seq, offs + 1, min_len, tolerance, max_merge)
    ELSE <<>>

find_seqs(seq, min_len, tolerance, max_merge) ==
    IF Len(seq) < min_len * 2 THEN <<>>
    ELSE HayLoop(seq, 0, min_len, tolerance, max_merge)

\* Variant: every token of a match is penalized, not only its last one.
PenalizeMap_all(mis) ==
    [t \in UNION {{m[i] : i \in 1..Len(m)} : m \in mis} |->
        CHOOSE n \in {Len(m) : m \in mis} : \A m \in mis : Len(m) <= n]

\* The penalize map of sample(): continuation token -> longest seq length.
\* entry(last token).and_modify(max).or_insert(seqlen) over the matches
\* mis, a set of sequences: the longest length seen for every last token.
PenalizeMap(mis) ==
    [t \in {m[Len(m)] : m \in mis} |->
        CHOOSE n \in {Len(m) : m \in mis} :
            /\ \E m \in mis : m[Len(m)] = t /\ Len(m) = n
            /\ \A m \in mis : m[Len(m)] = t => Len(m) <= n]

\* .filter(|mi| !mi.seq.is_empty())
PenalizeFound(found) ==
    PenalizeMap({found[i].seq : i \in {j \in 1..Len(found) : found[j].seq # <<>>}})

Penalize(self, orig_tokens) ==
    IF Len(orig_tokens) < self.min_length * 2 THEN [t \in {} |-> 0]
    ELSE PenalizeFound(find_seqs(LastN(orig_tokens, self.last_n), self.min_length,
                                 self.tolerance, self.max_merge))

\* The entry is addressed by position: logits[tid].  The map is walked in
\* HashMap order: when some tid is out of range the call fails after the
\* entries in `before` (a set of in-range keys) have been penalized.
SeqRepApply(self, s, penalize, tids) ==
    [i \in 1..Len(s) |->
        IF (i - 1) \in tids
        THEN [s[i] EXCEPT !.logit =
                 Sat(@ - (penalize[i - 1] * self.stacking_penalty + self.flat_penalty))]
        ELSE s[i]]

SeqRepWalk(self, L, penalize, before) ==
    IF \E t \in DOMAIN penalize : Len(L.logits) <= t
    THEN Err("InternalError(TID out of range for logits)",
             [L EXCEPT !.logits =
                 SeqRepApply(self, @, penalize,
                             {t \in DOMAIN penalize : t < Len(L.logits)} \cap before)],
             self)
    ELSE Ok([L EXCEPT !.logits = SeqRepApply(self, @, penalize, DOMAIN penalize)], self)

SampleSeqRepetition_sample(self, r, L, before) ==
    IF \/ L.logits = <<>>
       \/ (self.flat_penalty = 0 /\ self.stacking_penalty = 0)
       \/ self.min_length < 2
       \/ self.last_n < self.min_length
    THEN Ok(L, self)
    ELSE IF ~IsSome(r.last_tokens)
    THEN Err("MissingResource(last_tokens)", L, self)
    ELSE SeqRepWalk(self, L, Penalize(self, Unwrap(r.last_tokens)), before)

\* The keys a failing call may have penalized before it met the key that is
\* out of range; empty for a call that does not fail that way.
SeqRepInRange(keys, n) ==
    IF \E t \in keys : n <= t THEN {t \in keys : t < n} ELSE {}

SeqRepPartial(self, r, L) ==
    IF \/ L.logits = <<>>
       \/ (self.flat_penalty = 0 /\ self.stacking_penalty = 0)
       \/ self.min_length < 2
       \/ self.last_n < self.min_length
       \/ ~IsSome(r.last_tokens)
    THEN {}
    ELSE SeqRepInRange(DOMAIN Penalize(self, Unwrap(r.last_tokens)), Len(L.logits))

(***************************************************************************)
(* samplers/top_p.rs                                                       *)
(***************************************************************************)
SampleTopP(p, min_keep) == [kind |-> "top_p", p |-> p, min_keep |-> min_keep]

\* try_fold over the entries: the first idx (0-based) with cum_sum >= p and
\* idx + 1 >= min_keep breaks with idx + 1; logits.len() when none does.
\* cum is the sum of the numerators so far, c that sum with entry i added.
RECURSIVE TopPCut(_, _, _, _, _)
TopPStep(s, i, c, p, min_keep) ==
    IF c * p.den >= p.num * s[i].prob.den /\ i >= min_keep
    THEN i
    ELSE TopPCut(s, i + 1, c, p, min_keep)

TopPCut(s, i, cum, p, min_keep) ==
    IF i > Len(s) THEN Len(s)
    ELSE TopPStep(s, i, cum + s[i].prob.num, p, min_keep)

\* Variant: the cut disregards min_keep.
TopPApply_nokeep(self, S) ==
    Ok(truncate(S, TopPCut(S.logits, 1, 0, self.p, 0)), self)

TopPApply(self, S) ==
    Ok(truncate(S, TopPCut(S.logits, 1, 0, self.p, self.min_keep)), self)

SampleTopP_sample(self, r, L) == TopPApply(self, softmax(L))

(***************************************************************************)
(* samplers/tail_free.rs                                                   *)
(***************************************************************************)
SampleTailFree(z, min_keep) == [kind |-> "tail_free", z |-> z, min_keep |-> min_keep]

\* First differences of the probabilities (numerators over the common
\* denominator) and absolute second differences.
TailFreeFDerivs(s) == [i \in 1..(Len(s) - 1) |-> s[i].prob.num - s[i + 1].prob.num]

TailFreeSDerivs(fd) == [i \in 1..(Len(fd) - 1) |-> Abs(fd[i] - fd[i + 1])]

\* try_fold over the normalized second differences sd[i] / ssum: the first
\* idx (0-based) with cum_sum > z and idx >= min_keep breaks with idx.
\* When ssum is 0 every quotient is NaN and no comparison holds.
RECURSIVE TailFreeCut(_, _, _, _, _, _, _)
TailFreeStep(sd, i, c, ssum, z, min_keep, n) ==
    IF ssum > 0 /\ c * z.den > z.num * ssum /\ i - 1 >= min_keep
    THEN i - 1
    ELSE TailFreeCut(sd, i + 1, c, ssum, z, min_keep, n)

TailFreeCut(sd, i, cum, ssum, z, min_keep, n) ==
    IF i > Len(sd) THEN n
    ELSE TailFreeStep(sd, i, cum + sd[i], ssum, z, min_keep, n)

TailFreeTruncate(self, S, sd) ==
    truncate(S, TailFreeCut(sd, 1, 0, SumSeq(sd), self.z, self.min_keep, Len(S.logits)))

\* The while loop takes one first difference and peeks at the next before
\* it compares the number of second differences with want_sderivs: with
\* two entries there is one first difference and the peek finds nothing.
TailFreeApply(self, S) ==
    IF Len(S.logits) = 2
    THEN Err("InternalError(Impossible: missing next deriv item?)", S, self)
    ELSE Ok(TailFreeTruncate(self, S, TailFreeSDerivs(TailFreeFDerivs(S.logits))), self)

SampleTailFree_sample(self, r, L) ==
    IF self.z.num >= self.z.den \/ Len(L.logits) < 2 THEN Ok(L, self)
    ELSE TailFreeApply(self, softmax(L))

(***************************************************************************)
(* samplers/min_p.rs, samplers/top_a.rs                                    *)
(***************************************************************************)
SampleMinP(p, min_keep) == [kind |-> "min_p", p |-> p, min_keep |-> min_keep]

SampleTopA(a1, a2, min_keep) ==
    [kind |-> "top_a", a1 |-> a1, a2 |-> a2, min_keep |-> min_keep]

\* Logits::ensure_softmax and Logits::set_softmax: the probabilities are
\* those of softmax(); the collection of types.rs keeps no record of their
\* validity, so they are computed at every call and set_softmax has
\* nothing to clear.
ensure_softmax(L) == softmax(L)

set_softmax(L, is_softmax) == L

RECURSIVE Pow(_, _)
Pow(b, e) == IF e <= 0 THEN 1 ELSE b * Pow(b, e - 1)

\* .skip(from).find(|l| l.prob < threshold): the first idx (0-based) from
\* `from` on whose probability is below tn / td, in units of the common
\* denominator; logits.len() when there is none.
RECURSIVE ThresholdCut(_, _, _, _)
ThresholdCut(s, idx, tn, td) ==
    IF idx >= Len(s) THEN Len(s)
    ELSE IF s[idx + 1].prob.num * td < tn THEN idx
    ELSE ThresholdCut(s, idx + 1, tn, td)

ThresholdTruncate(S, last_idx) ==
    IF last_idx # Len(S.logits) THEN set_softmax(truncate(S, last_idx), FALSE) ELSE S

\* threshold = logits[0].prob * p
MinPApply(self, S) ==
    IF Len(S.logits) <= self.min_keep THEN Ok(S, self)
    ELSE Ok(ThresholdTruncate(S,
                ThresholdCut(S.logits, Max(1, self.min_keep),
                             S.logits[1].prob.num * self.p.num, self.p.den)), self)

SampleMinP_sample(self, r, L) ==
    IF self.p.num = 0 \/ L.logits = <<>> THEN Ok(L, self)
    ELSE MinPApply(self, ensure_softmax(L))

\* threshold = logits[0].prob.powf(a2) * a1; a2 is a natural number here.
TopAApply(self, S) ==
    IF Len(S.logits) <= self.min_keep THEN Ok(S, self)
    ELSE Ok(ThresholdTruncate(S,
                ThresholdCut(S.logits, Max(1, self.min_keep),
                             self.a1.num * Pow(S.logits[1].prob.num, self.a2),
                             self.a1.den * Pow(S.logits[1].prob.den, self.a2 - 1))), self)

SampleTopA_sample(self, r, L) ==
    IF L.logits = <<>> \/ self.a1.num = 0 \/ self.a2 = 0 THEN Ok(L, self)
    ELSE TopAApply(self, ensure_softmax(L))

(***************************************************************************)
(* samplers/mirostat.rs                                                    *)
(***************************************************************************)
\* -prob.log2() of a probability num / den.  The value is exact when the
\* probability is a power of 1/2; mu, tau and eta are integers, and the
\* calls explored are those in which the selected probability is one.
RECURSIVE Log2(_)
Log2(n) == IF n <= 1 THEN 0 ELSE 1 + Log2(n \div 2)

IsDyadic(p) == p.num > 0 /\ p.den = p.num * Pow2(Log2(p.den \div p.num))

Surprise(p) == Log2(p.den \div p.num)

\* logits.iter().find(|l| l.token_id == tid): the probability of the first
\* entry of token id tid.
ProbOf(s, tid) ==
    s[CHOOSE i \in 1..Len(s) :
          /\ s[i].token_id = tid
          /\ \A j \in 1..(i - 1) : s[j].token_id # tid].prob

\* What sample() of Mirostat v1 and v2 leaves behind: the outcome, the
\* provider, and the tokens dist.sample(rng) selected, in call order.
MirostatResult(o, r, draws) ==
    [ok |-> o.ok, err |-> o.err, logits |-> o.logits, self |-> o.self,
     res |-> r, draws |-> draws]

\* self.mu = self.mu - (eta * (-logit.prob.log2() - tau)); self.token = Some(tid)
MirostatUpdate(self, s, tid) ==
    [self EXCEPT !.mu = @ - self.eta * (Surprise(ProbOf(s, tid)) - self.tau),
                 !.token = Some(tid)]

\* if let Some(tid) = self.rd_sampler.sample_token(res, logits)? { ... }
\* o is the outcome of the rd_sampler call, draws the earlier selections.
MirostatSelected(self, r, o, draws) ==
    IF ~o.ok THEN MirostatResult(Err(o.err, o.logits, self), r, draws)
    ELSE IF IsSome(o.self.token_id)
    THEN MirostatResult(
             Ok(o.logits, MirostatUpdate(self, o.logits.logits, Unwrap(o.self.token_id))),
             r, Append(draws, Unwrap(o.self.token_id)))
    ELSE MirostatResult(Ok(o.logits, self), r, draws)

\* Mirostat v1.  k is the value of the estimate (epsilon_hat * mu^2 -
\* n_vocab^(-epsilon_hat))^(1 / s_hat) cast to usize, a float expression the
\* model does not evaluate: the call is explored for every k.  SampleTopK
\* works on the logits resource of the provider.
Mirostat1TopK(self, r, S, topk, draw) ==
    IF ~SampleTopK_sample(topk, r, S).ok
    THEN MirostatResult(Err(SampleTopK_sample(topk, r, S).err, S, self), r, <<>>)
    ELSE MirostatSelected(self, SampleTopK_resources(topk, r),
                          SampleRandDistrib_sample(SampleRandDistrib,
                                                   SampleTopK_resources(topk, r), S, draw),
                          <<>>)

SampleMirostat1_sample(self, r, L, k, draw) ==
    IF L.logits = <<>> \/ self.m < 1
    THEN MirostatResult(Ok(L, [self EXCEPT !.token = None]), r, <<>>)
    ELSE IF self.n_vocab = 0
    THEN MirostatResult(Err("InternalError(Mirostat v1 sampler requires n_vocab)", L,
                            [self EXCEPT !.token = None]), r, <<>>)
    ELSE Mirostat1TopK([self EXCEPT !.token = None], r, softmax(L), SampleTopK(k, 1), draw)

\* Mirostat v2.  find_map(|(idx, l)| (-l.prob.log2() > mu).then_some(idx))
\* .unwrap_or_default().max(1): -log2(p) > mu is p < 2^(-mu), which is false
\* for a NaN.
RECURSIVE Mirostat2Find(_, _, _)
Mirostat2Find(s, idx, mu) ==
    IF idx >= Len(s) THEN 0
    ELSE IF s[idx + 1].prob.num * Pow2(mu) < s[idx + 1].prob.den * Pow2(0 - mu) THEN idx
    ELSE Mirostat2Find(s, idx + 1, mu)

Mirostat2Cut(S, mu) == truncate(S, Max(Mirostat2Find(S.logits, 0, mu), 1))

\* self.rd_sampler.sample(res, logits)?; then
\* self.rd_sampler.sample_token(res, logits)?, which samples again.
Mirostat2First(self, r, o, draw2) ==
    IF ~o.ok THEN MirostatResult(Err(o.err, o.logits, self), r, <<>>)
    ELSE MirostatSelected(self, r, SampleRandDistrib_sample(o.self, r, o.logits, draw2),
                          IF IsSome(o.self.token_id) THEN <<Unwrap(o.self.token_id)>>
                          ELSE <<>>)

Mirostat2Drawn(self, r, S, draw, draw2) ==
    Mirostat2First(self, r, SampleRandDistrib_sample(SampleRandDistrib, r, S, draw), draw2)

\* Variant: sample() does not clear the token of the call before.
SampleMirostat2_sample_stale(self, r, L, draw, draw2) ==
    IF L.logits = <<>>
    THEN MirostatResult(Ok(L, self), r, <<>>)
    ELSE Mirostat2Drawn(self, r, softmax(Mirostat2Cut(softmax(L), self.mu)), draw, draw2)

SampleMirostat2_sample(self, r, L, draw, draw2) ==
    IF L.logits = <<>>
    THEN MirostatResult(Ok(L, [self EXCEPT !.token = None]), r, <<>>)
    ELSE Mirostat2Drawn([self EXCEPT !.token = None], r,
                        softmax(Mirostat2Cut(softmax(L), self.mu)), draw, draw2)

(***************************************************************************)
(* types.rs: trait Sampler                                                 *)
(***************************************************************************)
\* Sampler::sample by dynamic dispatch.  nd carries what the call does not
\* determine: the index drawn from the RNG (draw) and the HashMap walk of
\* the sequence-repetition sampler (before).
Sample(s, r, L, nd) ==
    CASE s.kind = "greedy"          -> SampleGreedy_sample(s, r, L)
      [] s.kind = "flat_bias"       -> SampleFlatBias_sample(s, r, L)
      [] s.kind = "temperature"     -> SampleTemperature_sample(s, r, L)
      [] s.kind = "top_k"           -> SampleTopK_sample(s, r, L)
      [] s.kind = "locally_typical" -> SampleLocallyTypical_sample(s, r, L)
      [] s.kind = "freq_presence"   -> SampleFreqPresence_sample(s, r, L)
      [] s.kind = "repetition"      -> SampleRepetition_sample(s, r, L)
      [] s.kind = "top_p"           -> SampleTopP_sample(s, r, L)
      [] s.kind = "tail_free"       -> SampleTailFree_sample(s, r, L)
      [] s.kind = "min_p"           -> SampleMinP_sample(s, r, L)
      [] s.kind = "top_a"           -> SampleTopA_sample(s, r, L)
      [] s.kind = "seq_repetition"  -> SampleSeqRepetition_sample(s, r, L, nd.before)
      [] s.kind = "rand_distrib"    -> SampleRandDistrib_sample(s, r, L, nd.draw)

\* The resource provider after Sampler::sample: the built-in samplers leave
\* it as it is, except for the logits resource SampleTopK works on.
ResourcesAfter(s, r) ==
    IF s.kind = "top_k" THEN SampleTopK_resources(s, r) ELSE r

\* Sampler::sampled_token_id: the default implementation returns None, the
\* selecting samplers return their token field.
sampled_token_id(s) ==
    IF s.kind \in {"greedy", "rand_distrib"} THEN s.token_id
    ELSE IF s.kind \in {"mirostat1", "mirostat2"} THEN s.token
    ELSE None

(***************************************************************************)
(* chain.rs: SamplerChain                                                  *)
(***************************************************************************)
SamplerChain_new == [samplers |-> <<>>, token |-> None]

push_sampler(self, sampler) ==
    [samplers |-> Append(self.samplers, sampler), token |-> None]

\* The closure of try_fold for stage i: sample, then copy the stage's
\* reported token into the chain.
\* Variant: a stage that reports nothing leaves the chain's token alone.
ChainTokenAfter_keep(token, sampler) ==
    IF IsSome(sampled_token_id(sampler)) THEN sampled_token_id(sampler) ELSE token

ChainTokenAfter(token, sampler) == sampled_token_id(sampler)

\* Variant: the fold goes on after a failing stage.
FoldStop_never(o) == FALSE

\* The `?` on sampler.sample(res, logits): a failure leaves the fold.
FoldStop(o) == ~o.ok

\* What stage i did: the collection it received and what it returned.
StageRecord(i, L, o) ==
    [stage |-> i, input |-> L, output |-> o.logits, ok |-> o.ok, err |-> o.err,
     token |-> sampled_token_id(o.self)]

\* Stage i returned o successfully: the sampler keeps its new state and
\* the chain takes over its report.
ChainStage(self, i, o) ==
    [self EXCEPT !.samplers[i] = o.self, !.token = ChainTokenAfter(@, o.self)]

\* Stage i returned the failure o: the fold ends with it.
ChainFailed(self, r, L, i, trace, o) ==
    [ok |-> FALSE, err |-> o.err, logits |-> o.logits, res |-> r,
     self |-> [self EXCEPT !.samplers[i] = o.self],
     trace |-> Append(trace, StageRecord(i, L, o))]

\* try_fold over samplers.iter_mut().  trace lists, for every stage whose
\* sample ran, its index, the collection it received and what it returned.
RECURSIVE ChainFold(_, _, _, _, _, _)
RECURSIVE ChainStep(_, _, _, _, _, _, _)
ChainFold(self, r, L, nd, i, trace) ==
    IF i > Len(self.samplers)
    THEN [ok |-> TRUE, err |-> "", logits |-> L, res |-> r, self |-> self,
          trace |-> trace]
    ELSE ChainStep(self, r, L, nd, i, trace, Sample(self.samplers[i], r, L, nd))

\* The closure of try_fold for stage i, o being what the stage returned.
ChainStep(self, r, L, nd, i, trace, o) ==
    IF FoldStop(o)
    THEN ChainFailed(self, r, L, i, trace, o)
    ELSE ChainFold(ChainStage(self, i, o), ResourcesAfter(self.samplers[i], r),
                   o.logits, nd, i + 1,
                   Append(trace, StageRecord(i, L, o)))

SamplerChain_sample(self, r, L, nd) ==
    ChainFold([self EXCEPT !.token = None], r, L, nd, 1, <<>>)

(***************************************************************************)
(* Text.  A string whose characters matter (an option key, a configuration *)
(* text) is a sequence of one-character strings.                           *)
(***************************************************************************)
\* str::starts_with
starts_with(s, prefix) ==
    Len(prefix) <= Len(s) /\ SubSeq(s, 1, Len(prefix)) = prefix

RECURSIVE trim_start(_)
trim_start(s) == IF s # <<>> /\ Head(s) = " " THEN trim_start(Tail(s)) ELSE s

RECURSIVE trim_end(_)
trim_end(s) ==
    IF s # <<>> /\ s[Len(s)] = " " THEN trim_end(SubSeq(s, 1, Len(s) - 1)) ELSE s

\* str::trim
trim(s) == trim_end(trim_start(s))

\* Position of the first c in s, 0 if there is none.
FirstIndex(s, c) ==
    IF \E i \in 1..Len(s) : s[i] = c
    THEN CHOOSE i \in 1..Len(s) : s[i] = c /\ \A j \in 1..(i - 1) : s[j] # c
    ELSE 0

\* str::split(c): the pieces between the separators, empty ones included.
RECURSIVE split(_, _)
RECURSIVE SplitAt(_, _, _)
split(s, c) == SplitAt(s, c, FirstIndex(s, c))

SplitAt(s, c, i) ==
    IF i = 0 THEN <<s>>
    ELSE <<SubSeq(s, 1, i - 1)>> \o split(SubSeq(s, i + 1, Len(s)), c)

\* str::split_once(c): None, or the text before and after the first c.
SplitOnceAt(s, i) ==
    IF i = 0 THEN None
    ELSE Some(<<SubSeq(s, 1, i - 1), SubSeq(s, i + 1, Len(s))>>)

split_once(s, c) == SplitOnceAt(s, FirstIndex(s, c))

Digits == <<"0", "1", "2", "3", "4", "5", "6", "7", "8", "9">>

IsDigit(c) == \E d \in 1..10 : Digits[d] = c

DigitVal(c) == (CHOOSE d \in 1..10 : Digits[d] = c) - 1

AllDigits(s) == \A i \in 1..Len(s) : IsDigit(s[i])

RECURSIVE DigitsVal(_, _)
DigitsVal(s, acc) ==
    IF s = <<>> THEN acc ELSE DigitsVal(Tail(s), acc * 10 + DigitVal(Head(s)))

RECURSIVE Pow10(_)
Pow10(n) == IF n <= 0 THEN 1 ELSE 10 * Pow10(n - 1)

Fraction(n, d) == [num |-> n, den |-> d]

(***************************************************************************)
(* configure/value.rs: SamplerOptionValue                                  *)
(***************************************************************************)
UInt(v) == [type |-> "UInt", v |-> v]
Float(v) == [type |-> "Float", v |-> v]
Bool(v) == [type |-> "Bool", v |-> v]
String(v) == [type |-> "String", v |-> v]

ParseOk(val) == [ok |-> TRUE, err |-> [kind |-> "none"], val |-> val]
ParseErr(kind) == [ok |-> FALSE, err |-> [kind |-> kind], val |-> UInt(0)]

\* u64::from_str: an optional '+' and at least one digit.
U64FromDigits(s) ==
    IF s # <<>> /\ AllDigits(s) THEN ParseOk(DigitsVal(s, 0)) ELSE ParseErr("ParseIntError")

U64FromStr(s) ==
    IF s # <<>> /\ Head(s) = "+" THEN U64FromDigits(Tail(s)) ELSE U64FromDigits(s)

parse_uint(s) == U64FromStr(trim(s))

\* f64::from_str on decimal notation: [+-] digits [. digits], with digits on
\* at least one side of the point.  A value without fractional digits is an
\* integer of the model, any other one the fraction num / 10^k.
F64Value(sign, int, frac) ==
    IF frac = <<>> \/ DigitsVal(frac, 0) = 0
    THEN sign * DigitsVal(int, 0)
    ELSE Fraction(sign * (DigitsVal(int, 0) * Pow10(Len(frac)) + DigitsVal(frac, 0)),
                  Pow10(Len(frac)))

F64FromParts(sign, int, frac) ==
    IF AllDigits(int) /\ AllDigits(frac) /\ (int # <<>> \/ frac # <<>>)
    THEN ParseOk(F64Value(sign, int, frac))
    ELSE ParseErr("ParseFloatError")

F64Unsigned(sign, s, point) ==
    IF point = 0 THEN F64FromParts(sign, s, <<>>)
    ELSE F64FromParts(sign, SubSeq(s, 1, point - 1), SubSeq(s, point + 1, Len(s)))

F64FromStr(s) ==
    IF s # <<>> /\ Head(s) = "-" THEN F64Unsigned(-1, Tail(s), FirstIndex(Tail(s), "."))
    ELSE IF s # <<>> /\ Head(s) = "+" THEN F64Unsigned(1, Tail(s), FirstIndex(Tail(s), "."))
    ELSE F64Unsigned(1, s, FirstIndex(s, "."))

\* The infinities are the fractions 1/0 and -1/0.
F64Named(s) ==
    IF s \in {<<"-", "i", "n", "f">>, <<"-", "I", "N", "F">>} THEN ParseOk(Fraction(-1, 0))
    ELSE IF s \in {<<"i", "n", "f">>, <<"I", "N", "F">>,
                   <<"+", "i", "n", "f">>, <<"+", "I", "N", "F">>}
    THEN ParseOk(Fraction(1, 0))
    ELSE F64FromStr(s)

parse_float(s) == F64Named(trim(s))

BoolNamed(s) ==
    IF s \in {<<"t", "r", "u", "e">>, <<"t">>, <<"y", "e", "s">>, <<"1">>} THEN ParseOk(TRUE)
    ELSE IF s \in {<<"f", "a", "l", "s", "e">>, <<"f">>, <<"n", "o">>, <<"0">>}
    THEN ParseOk(FALSE)
    ELSE ParseErr("InternalError(Bad boolean value in sampler option)")

parse_bool(s) == BoolNamed(trim(s))

parse_string(s) == ParseOk(trim(s))

\* .map(Self::UInt) and its siblings: the parsed number becomes a value.
ParsedAs(typ, p) == IF p.ok THEN ParseOk([type |-> typ, v |-> p.val]) ELSE p

parse_value(typ, s) ==
    CASE typ = "UInt"   -> ParsedAs(typ, parse_uint(s))
      [] typ = "Float"  -> ParsedAs(typ, parse_float(s))
      [] typ = "Bool"   -> ParsedAs(typ, parse_bool(s))
      [] typ = "String" -> ParsedAs(typ, parse_string(s))

(***************************************************************************)
(* samplers/mirostat.rs, samplers/repetition.rs: construction              *)
(***************************************************************************)
\* SampleMirostat1::new: m = 100, mu = tau * 2.
SampleMirostat1(n_vocab, tau, eta) ==
    [kind |-> "mirostat1", n_vocab |-> n_vocab, m |-> 100, tau |-> tau, eta |-> eta,
     mu |-> tau * 2, token |-> None]

SampleMirostat2(tau, eta) ==
    [kind |-> "mirostat2", tau |-> tau, eta |-> eta, mu |-> tau * 2, token |-> None]

SampleRepetition(repetition_penalty, last_n) ==
    [kind |-> "repetition", repetition_penalty |-> repetition_penalty, last_n |-> last_n]

(***************************************************************************)
(* configure/metadata.rs: option definitions and their accessors           *)
(***************************************************************************)
SamplerOptionMetadata(key, option_type) == [key |-> key, option_type |-> option_type]

\* One row of a sampler's option list: the definition of sampler_metadata
\* and, at the same index of sampler_options / sampler_options_mut, the
\* field behind the accessor and the variant the accessor is wrapped in.
Opt(key, option_type, field) ==
    [md |-> SamplerOptionMetadata(key, option_type), type |-> option_type, field |-> field]

SampleMirostat1_options ==
    <<Opt(<<"t", "a", "u">>, "Float", "tau"),
      Opt(<<"e", "t", "a">>, "Float", "eta"),
      Opt(<<"m", "u">>, "Float", "mu"),
      Opt(<<"m">>, "UInt", "m"),
      Opt(<<"n", "_", "v", "o", "c", "a", "b">>, "UInt", "n_vocab")>>

SampleMirostat2_options ==
    <<Opt(<<"t", "a", "u">>, "Float", "tau"),
      Opt(<<"e", "t", "a">>, "Float", "eta"),
      Opt(<<"m", "u">>, "Float", "mu")>>

SampleTopK_options ==
    <<Opt(<<"k">>, "UInt", "k"),
      Opt(<<"m", "i", "n", "_", "k", "e", "e", "p">>, "UInt", "min_keep")>>

SampleLocallyTypical_options ==
    <<Opt(<<"p">>, "Float", "p"),
      Opt(<<"m", "i", "n", "_", "k", "e", "e", "p">>, "UInt", "min_keep")>>

SampleTemperature_options ==
    <<Opt(<<"t", "e", "m", "p", "e", "r", "a", "t", "u", "r", "e">>, "Float", "temperature")>>

SampleRepetition_options ==
    <<Opt(<<"p", "e", "n", "a", "l", "t", "y">>, "Float", "repetition_penalty"),
      Opt(<<"l", "a", "s", "t", "_", "n">>, "UInt", "last_n")>>

SampleFreqPresence_options ==
    <<Opt(<<"f", "r", "e", "q", "u", "e", "n", "c", "y", "_", "p", "e", "n", "a", "l", "t", "y">>,
          "Float", "frequency_penalty"),
      Opt(<<"p", "r", "e", "s", "e", "n", "c", "e", "_", "p", "e", "n", "a", "l", "t", "y">>,
          "Float", "presence_penalty"),
      Opt(<<"l", "a", "s", "t", "_", "n">>, "UInt", "last_n")>>

SampleSeqRepetition_options ==
    <<Opt(<<"f", "l", "a", "t", "_", "p", "e", "n", "a", "l", "t", "y">>, "Float", "flat_penalty"),
      Opt(<<"s", "t", "a", "c", "k", "i", "n", "g", "_", "p", "e", "n", "a", "l", "t", "y">>,
          "Float", "stacking_penalty"),
      Opt(<<"m", "i", "n", "_", "l", "e", "n", "g", "t", "h">>, "UInt", "min_length"),
      Opt(<<"t", "o", "l", "e", "r", "a", "n", "c", "e">>, "UInt", "tolerance"),
      Opt(<<"m", "a", "x", "_", "m", "e", "r", "g", "e">>, "UInt", "max_merge"),
      Opt(<<"l", "a", "s", "t", "_", "n">>, "UInt", "last_n")>>

\* The option rows of a sampler; greedy, random distribution and flat bias
\* declare no options.
OptionRows(slf) ==
    CASE slf.kind = "mirostat1"       -> SampleMirostat1_options
      [] slf.kind = "mirostat2"       -> SampleMirostat2_options
      [] slf.kind = "top_k"           -> SampleTopK_options
      [] slf.kind = "locally_typical" -> SampleLocallyTypical_options
      [] slf.kind = "temperature"     -> SampleTemperature_options
      [] slf.kind = "repetition"      -> SampleRepetition_options
      [] slf.kind = "freq_presence"   -> SampleFreqPresence_options
      [] slf.kind = "seq_repetition"  -> SampleSeqRepetition_options
      [] OTHER                        -> <<>>

\* HasSamplerMetadata::sampler_options_mut: each definition with a mutable
\* accessor, the field it refers to and the variant it is wrapped in.
sampler_options_mut(slf) ==
    [i \in 1..Len(OptionRows(slf)) |->
        [md |-> OptionRows(slf)[i].md,
         acc |-> Some([type |-> OptionRows(slf)[i].type, field |-> OptionRows(slf)[i].field])]]

\* HasSamplerMetadata::sampler_options: each definition with the current
\* value of its field.
sampler_options(slf) ==
    [i \in 1..Len(OptionRows(slf)) |->
        [md |-> OptionRows(slf)[i].md,
         acc |-> Some([type |-> OptionRows(slf)[i].type, v |-> slf[OptionRows(slf)[i].field]])]]

\* ConfigureSamplerError
UnknownOrBadType(key) == [kind |-> "UnknownOrBadType", key |-> key]
AmbiguousKey(key) == [kind |-> "AmbiguousKey", key |-> key]
CannotAccessOptionValue(key) == [kind |-> "CannotAccessOptionValue", key |-> key]
NoError == [kind |-> "none"]

\* The indexes the filter_map of find_option_definition yields.
\* Variant: only the full name of an option matches.
OptionMatch_exact(omd, key) == omd.key = key

OptionMatch(omd, key) == starts_with(omd.key, key)

OptionMatches(opts, key) == {i \in 1..Len(opts) : OptionMatch(opts[i].md, key)}

FirstOf(S) == CHOOSE i \in S : \A j \in S : i <= j

\* it.next() is the first match; a second it.next() makes the key ambiguous.
FindAmong(opts, key, matches) ==
    IF matches = {}
    THEN [ok |-> FALSE,
          err |-> UnknownOrBadType(IF key = <<>> THEN "<unspecified>" ELSE key)]
    ELSE IF Cardinality(matches) > 1
    THEN [ok |-> FALSE, err |-> AmbiguousKey(key)]
    ELSE [ok |-> TRUE, err |-> NoError, omd |-> opts[FirstOf(matches)].md,
          optidx |-> IF IsSome(opts[FirstOf(matches)].acc)
                     THEN Some(FirstOf(matches)) ELSE None]

FindTrimmed(opts, key) == FindAmong(opts, key, OptionMatches(opts, key))

find_option_definition(opts, key) == FindTrimmed(opts, trim(key))

(***************************************************************************)
(* configure/configurable.rs: ConfigurableSampler                          *)
(***************************************************************************)
\* Outcome of set_option.  applied names, for a call that succeeded, the
\* option the key resolved to and the value it received.
OptOk(slf, omd, val) ==
    [ok |-> TRUE, err |-> NoError, self |-> slf,
     applied |-> <<[key |-> omd.key, val |-> val]>>]
OptErr(e, slf) == [ok |-> FALSE, err |-> e, self |-> slf, applied |-> <<>>]

\* ConfigurableSampler::pre_set_option: no built-in sampler overrides the
\* default, which leaves the value as it is.
pre_set_option(slf, md, val) == val

\* Variant: setting tau leaves mu as it is.
SampleMirostat1_post_set_option_none(self, md) == self

\* Mirostat v1 and v2: when tau is set, mu becomes tau * 2.
SampleMirostat1_post_set_option(self, md) ==
    IF md.key = <<"t", "a", "u">> THEN [self EXCEPT !.mu = self.tau * 2] ELSE self

SampleMirostat2_post_set_option(self, md) ==
    IF md.key = <<"t", "a", "u">> THEN [self EXCEPT !.mu = self.tau * 2] ELSE self

\* ConfigurableSampler::post_set_option by dynamic dispatch; the default
\* implementation does nothing.
post_set_option(slf, md) ==
    CASE slf.kind = "mirostat1" -> SampleMirostat1_post_set_option(slf, md)
      [] slf.kind = "mirostat2" -> SampleMirostat2_post_set_option(slf, md)
      [] OTHER                  -> slf

\* The match on (accessor, value): the variants must agree.  UI::from_u64
\* and F::from_f64 are exact on the values of the model (naturals, small
\* integers and decimal fractions), so the field receives the value itself.
\* Variant: the value is stored whatever its variant is.
SetThrough_store(slf, key, omd, acc, val) ==
    OptOk(post_set_option([slf EXCEPT ![acc.field] = val.v], omd), omd, val)

SetThrough(slf, key, omd, acc, val) ==
    IF acc.type # val.type THEN OptErr(UnknownOrBadType(key), slf)
    ELSE OptOk(post_set_option([slf EXCEPT ![acc.field] = val.v], omd), omd, val)

SetFound(slf, key, val, found) ==
    IF ~found.ok THEN OptErr(found.err, slf)
    ELSE IF ~IsSome(found.optidx) THEN OptErr(CannotAccessOptionValue(key), slf)
    ELSE SetThrough(slf, key, found.omd,
                    Unwrap(sampler_options_mut(slf)[Unwrap(found.optidx)].acc),
                    pre_set_option(slf, found.omd, val))

SetTrimmed(slf, key, val) ==
    SetFound(slf, key, val, find_option_definition(sampler_options_mut(slf), key))

\* configurable_sampler::set_option
set_option(slf, key, val) == SetTrimmed(slf, trim(key), val)

GetFound(slf, key, found) ==
    IF ~found.ok THEN [ok |-> FALSE, err |-> found.err]
    ELSE IF ~IsSome(found.optidx)
    THEN [ok |-> FALSE, err |-> CannotAccessOptionValue(key)]
    ELSE [ok |-> TRUE, err |-> NoError,
          val |-> Unwrap(sampler_options(slf)[Unwrap(found.optidx)].acc)]

GetTrimmed(slf, key) ==
    GetFound(slf, key, find_option_definition(sampler_options(slf), key))

\* configurable_sampler::get_option
get_option(slf, key) == GetTrimmed(slf, trim(key))

\* kv.split_once('=').unwrap_or(("", kv))
KeyValueOf(kv, once) == IF IsSome(once) THEN Unwrap(once) ELSE <<<<>>, kv>>

KeyValue(kv) == KeyValueOf(kv, split_once(kv, "="))

\* s.trim().split(':').map(str::trim).filter(|s| !s.is_empty())
RECURSIVE TrimNonEmpty(_)
TrimNonEmpty(parts) ==
    IF parts = <<>> THEN <<>>
    ELSE (IF trim(Head(parts)) = <<>> THEN <<>> ELSE <<trim(Head(parts))>>)
         \o TrimNonEmpty(Tail(parts))

Segments(s) == TrimNonEmpty(split(trim(s), ":"))

\* try_for_each over the segments.  applied lists, for every segment whose
\* set_option succeeded, the option it resolved to and the value it set.
RECURSIVE ConfigureFold(_, _, _, _)
RECURSIVE ConfigureSet(_, _, _, _, _, _, _)
ConfigureFailed(slf, e, applied) ==
    [ok |-> FALSE, err |-> e, self |-> slf, applied |-> applied]

ConfigureParsed(slf, opts, segs, applied, omd, parsed) ==
    IF ~parsed.ok THEN ConfigureFailed(slf, parsed.err, applied)
    ELSE ConfigureSet(slf, opts, segs, applied, omd, parsed.val,
                      set_option(slf, omd.key, parsed.val))

\* Variant: a segment whose key does not resolve is passed over.
ConfigureFound_skip(slf, opts, segs, applied, kv, found) ==
    IF ~found.ok THEN ConfigureFold(slf, opts, Tail(segs), applied)
    ELSE IF ~IsSome(found.optidx)
    THEN ConfigureFailed(slf, UnknownOrBadType(kv[1]), applied)
    ELSE ConfigureParsed(slf, opts, segs, applied, found.omd,
                         parse_value(found.omd.option_type, trim(kv[2])))

ConfigureFound(slf, opts, segs, applied, kv, found) ==
    IF ~found.ok THEN ConfigureFailed(slf, found.err, applied)
    ELSE IF ~IsSome(found.optidx)
    THEN ConfigureFailed(slf, UnknownOrBadType(kv[1]), applied)
    ELSE ConfigureParsed(slf, opts, segs, applied, found.omd,
                         parse_value(found.omd.option_type, trim(kv[2])))

ConfigureSegment(slf, opts, segs, applied, kv) ==
    ConfigureFound(slf, opts, segs, applied, kv, find_option_definition(opts, kv[1]))

ConfigureFold(slf, opts, segs, applied) ==
    IF segs = <<>>
    THEN [ok |-> TRUE, err |-> NoError, self |-> slf, applied |-> applied]
    ELSE ConfigureSegment(slf, opts, segs, applied, KeyValue(Head(segs)))

ConfigureSet(slf, opts, segs, applied, omd, val, o) ==
    IF ~o.ok THEN ConfigureFailed(o.self, o.err, applied)
    ELSE ConfigureFold(o.self, opts, Tail(segs), applied \o o.applied)

\* configurable_sampler::configure; opts is the option list taken once,
\* before the first segment.
configure(slf, s) == ConfigureFold(slf, sampler_options_mut(slf), Segments(s), <<>>)

(***************************************************************************)
(* configure/build.rs: SamplerSlot, SamplerChainBuilder                    *)
(***************************************************************************)
\* A factory is the sampler its closure returns on every call.
new_static(factory) == [type |-> "Static", factory |-> factory]

new_single(factory, sampler) ==
    [type |-> "Single", factory |-> factory, sampler |-> sampler]

new_chain(factory, samplers) ==
    [type |-> "Chain", factory |-> factory, samplers |-> samplers]

\* BuildSamplersError
UnknownSlot(name) == [kind |-> "UnknownSlot", name |-> name]
CannotConfigureStatic(name) == [kind |-> "CannotConfigureStatic", name |-> name]
\* Variant: the failure is passed on without the name of the slot.
cfgerr_unnamed(name, err) == [kind |-> "ConfigureFailed", name |-> "", err |-> err]

cfgerr(name, err) == [kind |-> "ConfigureFailed", name |-> name, err |-> err]

BuildOk(self, applied) == [ok |-> TRUE, err |-> NoError, self |-> self, applied |-> applied]
BuildErr(e, self, applied) ==
    [ok |-> FALSE, err |-> e, self |-> self, applied |-> applied]

\* slots.iter_mut().find(|(slotname, _)| slotname == name): 0 for None.
FindSlot(self, name) ==
    IF \E i \in 1..Len(self) : self[i].name = name
    THEN CHOOSE i \in 1..Len(self) :
             self[i].name = name /\ \A j \in 1..(i - 1) : self[j].name # name
    ELSE 0

\* Variant: every configure starts from a sampler fresh from the factory.
SingleTarget_fresh(slot) == slot.factory

\* Single: the sampler that configure is called on.
SingleTarget(slot) ==
    IF IsSome(slot.sampler) THEN Unwrap(slot.sampler) ELSE slot.factory

\* Variant: a failing configure leaves the slot as it was.
SingleAfter_atomic(slot, o) ==
    IF o.ok THEN [slot EXCEPT !.sampler = Some(o.self)] ELSE slot

\* Single: a present sampler is configured in place, so it keeps what a
\* failing call has set; a fresh one is stored only when configure succeeds.
SingleAfter(slot, o) ==
    IF o.ok \/ IsSome(slot.sampler)
    THEN [slot EXCEPT !.sampler = Some(o.self)]
    ELSE slot

\* Variant: the new sampler takes the place of the last one.
ChainPush_replace(samplers, fresh) ==
    IF samplers = <<>> THEN <<fresh>>
    ELSE [samplers EXCEPT ![Len(samplers)] = fresh]

\* Chain: samplers.push(fresh)
ChainPush(samplers, fresh) == Append(samplers, fresh)

ChainAfter(slot, o) ==
    IF o.ok THEN [slot EXCEPT !.samplers = ChainPush(@, o.self)] ELSE slot

SlotConfigured(self, name, i, after, o) ==
    IF o.ok THEN BuildOk([self EXCEPT ![i].slot = after], o.applied)
    ELSE BuildErr(cfgerr(name, o.err), [self EXCEPT ![i].slot = after], o.applied)

SingleConfigure(self, name, i, o) ==
    SlotConfigured(self, name, i, SingleAfter(self[i].slot, o), o)

ChainConfigure(self, name, i, o) ==
    SlotConfigured(self, name, i, ChainAfter(self[i].slot, o), o)

SlotConfigure(self, name, s, i) ==
    IF i = 0 THEN BuildErr(UnknownSlot(name), self, <<>>)
    ELSE CASE self[i].slot.type = "Static" ->
                  BuildErr(CannotConfigureStatic(name), self, <<>>)
           [] self[i].slot.type = "Single" ->
                  SingleConfigure(self, name, i, configure(SingleTarget(self[i].slot), s))
           [] self[i].slot.type = "Chain" ->
                  ChainConfigure(self, name, i, configure(self[i].slot.factory, s))

\* SamplerChainBuilder::configure
SamplerChainBuilder_configure(self, name, s) ==
    SlotConfigure(self, name, s, FindSlot(self, name))

(***************************************************************************)
(* Inputs the caller chooses from.                                         *)
(***************************************************************************)
LogitVals == 0..1

FreshLogits ==
    {try_from_iter(v) : v \in SeqsUpTo(LogitVals, MaxLen)}
        \cup {try_from_iter(<<1, -2, 2>>)}

Histories == {None, Some(<<1, 2, 0, 1, 2>>), Some(<<0, 1, 2, 2, 2>>)}

\* Providers as SimpleSamplerResources::new makes them, and one that was
\* given a logits resource.
Resources ==
    {SimpleSamplerResources(g, h) : g \in BOOLEAN, h \in Histories}
        \cup {set_logits(SimpleSamplerResources(FALSE, None), Some(try_from_iter(<<0, 1>>)))}

BiasLists == {<<<<0, -2>>>>, <<<<1, 1>>, <<2, 1>>>>, <<<<3, 1>>>>}

Temperatures == {Fraction(0, 1), Fraction(1, 2), Fraction(-1, 1)}

FlatBiasSamplers == {SampleFlatBias(b) : b \in BiasLists}
TemperatureSamplers == {SampleTemperature(t) : t \in Temperatures}
TopKSamplers == {SampleTopK(0, 0), SampleTopK(0, 1), SampleTopK(1, 1), SampleTopK(2, 1)}
LocallyTypicalSamplers ==
    {SampleLocallyTypical(Fraction(1, 2), 1), SampleLocallyTypical(Fraction(1, 1), 1),
     SampleLocallyTypical(Fraction(1, 2), 0)}
FreqPresenceSamplers ==
    {SampleFreqPresence(1, 1, 8), SampleFreqPresence(1, 0, 8), SampleFreqPresence(0, 1, 8),
     SampleFreqPresence(1, 1, 2), SampleFreqPresence(1, 1, 0)}
RepetitionSamplers ==
    {SampleRepetition(2, 4), SampleRepetition(2, 8), SampleRepetition(2, 1),
     SampleRepetition(1, 4), SampleRepetition(2, 0)}
SeqRepetitionSamplers ==
    {SampleSeqRepetition(1, 0, 2, 0, 1, 8), SampleSeqRepetition(0, 1, 2, 1, 1, 8),
     SampleSeqRepetition(0, 0, 2, 0, 1, 8)}

\* What a call leaves undetermined: the RNG draw and the HashMap walk.
NonDet == [draw : 0..(MaxLen - 1), before : SUBSET (0..(MaxLen - 1))]

NoCall == [op |-> "none"]

\* Record of a call: the sampler as called, the collection before the call
\* and the outcome.
Call(s, before, o) ==
    [op |-> "sample", sampler |-> s, before |-> before, ok |-> o.ok, err |-> o.err,
     token |-> IF o.ok THEN sampled_token_id(o.self) ELSE None]

(***************************************************************************)
(* SpecLogits: a caller builds a Logits collection and applies built-in    *)
(* samplers to it one after the other (Logits::sample, types.rs).          *)
(***************************************************************************)
InitLogits ==
    /\ logits \in FreshLogits
    /\ res \in Resources
    /\ ret = NoCall
    /\ chain = SamplerChain_new
    /\ samp = NoCall
    /\ builder = <<>>
    /\ hist = <<>>
    /\ steps = 0

\* Logits::sample(res, sampler) = sampler.sample(res, self)
Apply(s, nd) ==
    /\ \E o \in {Sample(s, res, logits, nd)} :
           /\ logits' = o.logits
           /\ ret' = Call(s, logits, o)
    /\ res' = ResourcesAfter(s, res)
    /\ steps' = steps + 1
    /\ UNCHANGED <<chain, samp, builder, hist>>

Det == [draw |-> 0, before |-> {}]

\* The caller makes at most MaxSteps calls on one collection.
CanApply == steps < MaxSteps

ApplyGreedy == CanApply /\ Apply(SampleGreedy, Det)
ApplyFlatBias == \E s \in FlatBiasSamplers : CanApply /\ Apply(s, Det)
ApplyTemperature == \E s \in TemperatureSamplers : CanApply /\ Apply(s, Det)
ApplyTopK == \E s \in TopKSamplers : CanApply /\ Apply(s, Det)
ApplyLocallyTypical == \E s \in LocallyTypicalSamplers : CanApply /\ Apply(s, Det)
ApplyFreqPresence == \E s \in FreqPresenceSamplers : CanApply /\ Apply(s, Det)
ApplyRepetition ==
    \E s \in RepetitionSamplers :
        CanApply /\ RepetitionExact(s, res, logits) /\ Apply(s, Det)
ApplySeqRepetition ==
    \E s \in SeqRepetitionSamplers, nd \in NonDet :
        /\ CanApply
        /\ nd.draw = 0
        /\ nd.before \subseteq SeqRepPartial(s, res, logits)
        /\ Apply(s, nd)
ApplyRandDistrib ==
    \E nd \in NonDet :
        /\ CanApply
        /\ nd.before = {}
        /\ nd.draw < Max(1, Len(logits.logits))
        /\ Apply(SampleRandDistrib, nd)

NextLogits ==
    \/ ApplyGreedy
    \/ ApplyFlatBias
    \/ ApplyTemperature
    \/ ApplyTopK
    \/ ApplyLocallyTypical
    \/ ApplyFreqPresence
    \/ ApplyRepetition
    \/ ApplySeqRepetition
    \/ ApplyRandDistrib

SpecLogits == InitLogits /\ [][NextLogits]_vars

IsDescending(s) == \A i \in 1..(Len(s) - 1) : s[i].logit >= s[i + 1].logit

HoldsMax(s) == s = <<>> \/ \A i \in 1..Len(s) : s[1].logit >= s[i].logit

\* C3: whenever the sorted flag of the collection is true, its entries are
\* non-increasing by logit and entry 0 holds the maximum logit.
C3_SortedFlagIsTruthful ==
    logits.sorted => IsDescending(logits.logits) /\ HoldsMax(logits.logits)

\* The call just made was a sample() of a sampler of this kind, with the
\* token history present.
Sampled(kind) ==
    /\ ret.op = "sample"
    /\ ret.sampler.kind = kind
    /\ IsSome(res.last_tokens)

\* The trailing window of the history the sampler of the last call saw.
Window == LastN(Unwrap(res.last_tokens), ret.sampler.last_n)

\* C7: SampleFreqPresence with last_n > 0 subtracts
\* c * frequency_penalty + presence_penalty from the logit of every entry
\* whose token id occurs c > 0 times in the window and leaves every other
\* entry unchanged, also when exactly one of the two penalties is zero.
C7_PenalizesWithOnePenaltyZero ==
    (Sampled("freq_presence") /\ ret.sampler.last_n > 0)
        => /\ ret.ok
           /\ Len(logits.logits) = Len(ret.before.logits)
           /\ \A i \in 1..Len(ret.before.logits) :
                  /\ logits.logits[i].token_id = ret.before.logits[i].token_id
                  /\ logits.logits[i].logit =
                         ret.before.logits[i].logit
                         - (IF Count(Window, ret.before.logits[i].token_id) > 0
                            THEN Count(Window, ret.before.logits[i].token_id)
                                     * ret.sampler.frequency_penalty
                                 + ret.sampler.presence_penalty
                            ELSE 0)

\* The tokens that follow an earlier occurrence of the last len tokens of
\* the window w: appending one of them repeats a sequence w already holds.
Continuations(w, len) ==
    {w[i + len] : i \in {j \in 1..(Len(w) - len) :
                            SubSeq(w, j, j + len - 1)
                                = SubSeq(w, Len(w) - len + 1, Len(w))}}

\* The logit of the entry of token id t in the entries s.
LogitOf(s, t) == s[CHOOSE i \in 1..Len(s) : s[i].token_id = t].logit

\* C8: SampleSeqRepetition with tolerance 0, min_length L >= 2, a (positive)
\* penalty and a window of at least 2 * L tokens decreases the logit of
\* every token that follows an earlier occurrence of the last L window
\* tokens, the token at the last window position included.  The collection
\* holds one entry per token id, in id order, and every window token has
\* an entry.
C8_ContinuationTokensPenalized ==
    (/\ Sampled("seq_repetition")
     /\ ret.sampler.tolerance = 0
     /\ ret.sampler.min_length >= 2
     /\ ret.sampler.flat_penalty >= 0 /\ ret.sampler.stacking_penalty >= 0
     /\ ret.sampler.flat_penalty + ret.sampler.stacking_penalty > 0
     /\ Len(Window) >= 2 * ret.sampler.min_length
     /\ \A i \in 1..Len(ret.before.logits) : ret.before.logits[i].token_id = i - 1
     /\ \A j \in 1..Len(Window) : Window[j] < Len(ret.before.logits))
        => /\ ret.ok
           /\ \A t \in Continuations(Window, ret.sampler.min_length) :
                  LogitOf(logits.logits, t) < LogitOf(ret.before.logits, t)

(***************************************************************************)
(* SpecChain: a caller assembles a SamplerChain with push_sampler and      *)
(* calls SamplerChain::sample, each time on a fresh Logits collection.     *)
(***************************************************************************)
ChainSamplers ==
    {SampleGreedy, SampleRandDistrib, SampleFlatBias(<<<<0, NEG_INFINITY>>>>),
     SampleTopK(1, 1),
     SampleTemperature(Fraction(1, 2)), SampleFreqPresence(1, 1, 8),
     SampleSeqRepetition(1, 0, 2, 0, 1, 8)}

ChainInputs == {try_from_iter(v) : v \in {<<>>, <<1, 0>>, <<0, 1, 1>>, <<1, 0, 0>>}}

InitChain ==
    /\ logits = try_from_iter(<<>>)
    /\ res \in Resources
    /\ ret = NoCall
    /\ chain = SamplerChain_new
    /\ samp = NoCall
    /\ builder = <<>>
    /\ hist = <<>>
    /\ steps = 0

PushSampler ==
    \E s \in ChainSamplers :
        /\ Len(chain.samplers) < MaxChain
        /\ chain' = push_sampler(chain, s)
        /\ ret' = [op |-> "push_sampler"]
        /\ UNCHANGED <<logits, res, samp, builder, hist, steps>>

ChainSample ==
    \E fresh \in ChainInputs, nd \in NonDet :
        /\ steps < MaxCalls
        /\ nd.draw < Max(1, Len(fresh.logits))
        /\ nd.before = {}
        /\ \E o \in {SamplerChain_sample(chain, res, fresh, nd)} :
               /\ chain' = o.self
               /\ logits' = o.logits
               /\ res' = o.res
               /\ ret' = [op |-> "chain_sample", before |-> fresh, ok |-> o.ok,
                          err |-> o.err, trace |-> o.trace]
        /\ steps' = steps + 1
        /\ UNCHANGED <<samp, builder, hist>>

NextChain ==
    \/ PushSampler
    \/ ChainSample

SpecChain == InitChain /\ [][NextChain]_vars

\* The reports of the stages in the last call, in list order.
Reports == [i \in 1..Len(ret.trace) |-> ret.trace[i].token]

RECURSIVE LastNonEmpty(_)
LastNonEmpty(reports) ==
    IF reports = <<>> THEN None
    ELSE IF IsSome(reports[Len(reports)]) THEN reports[Len(reports)]
    ELSE LastNonEmpty(SubSeq(reports, 1, Len(reports) - 1))

ChainSucceeded == ret.op = "chain_sample" /\ ret.ok

\* C1 (as claimed): after a successful SamplerChain::sample the chain's
\* sampled_token_id() is the report of the last stage that reported a
\* non-empty selection; a later stage reporting nothing does not erase it.
C1_LastNonEmptyReportWins ==
    ChainSucceeded => chain.token = LastNonEmpty(Reports)

\* C1 (amended): after a successful SamplerChain::sample the chain's
\* sampled_token_id() is what the last stage of the list reported, empty
\* or not; it is empty for a chain without stages.
C1_LastStageReportWins ==
    ChainSucceeded =>
        chain.token = IF Reports = <<>> THEN None ELSE Reports[Len(Reports)]

\* C1 witness: a successful call in which an earlier stage selected a token
\* and the last stage reported nothing.
C1_Witness ==
    /\ ChainSucceeded
    /\ Len(Reports) >= 2
    /\ IsSome(Reports[1])
    /\ ~IsSome(Reports[Len(Reports)])
    /\ chain.token = None

\* C2: the stages run in list order, each on the collection the previous
\* one returned; the call stops at the first failing stage, runs no later
\* stage and returns that stage's failure.
C2_FirstFailureAborts ==
    ret.op = "chain_sample" =>
        LET t == ret.trace
            n == Len(t)
        IN  /\ n <= Len(chain.samplers)
            /\ \A i \in 1..n : t[i].stage = i
            /\ \A i \in 1..n : t[i].input = IF i = 1 THEN ret.before ELSE t[i - 1].output
            /\ \A i \in 1..(n - 1) : t[i].ok
            /\ ret.ok <=> (n = Len(chain.samplers) /\ \A i \in 1..n : t[i].ok)
            /\ ~ret.ok => ~t[n].ok /\ ret.err = t[n].err /\ logits = t[n].output
            /\ ret.ok => logits = IF n = 0 THEN ret.before ELSE t[n].output

\* C2 witness: a call that failed at its first stage while a later stage
\* was in the list.
C2_Witness ==
    /\ ret.op = "chain_sample"
    /\ ~ret.ok
    /\ Len(ret.trace) = 1
    /\ Len(chain.samplers) = 2
    /\ ret.err = "MissingResource(rng)"

(***************************************************************************)
(* What a sequence of successful option sets amounts to: every set stores  *)
(* its value in the field of its option, and a set of tau on a Mirostat    *)
(* sampler makes mu twice that value.                                      *)
(***************************************************************************)
FieldOf(slf, key) ==
    OptionRows(slf)[CHOOSE i \in 1..Len(OptionRows(slf)) : OptionRows(slf)[i].md.key = key].field

IsMirostat(slf) == slf.kind \in {"mirostat1", "mirostat2"}

AfterSet(slf, key, v) ==
    IF IsMirostat(slf) /\ key = <<"t", "a", "u">>
    THEN [slf EXCEPT !.tau = v, !.mu = 2 * v]
    ELSE [slf EXCEPT ![FieldOf(slf, key)] = v]

RECURSIVE AfterSets(_, _)
AfterSets(slf, sets) ==
    IF sets = <<>> THEN slf
    ELSE AfterSets(AfterSet(slf, Head(sets).key, Head(sets).val.v), Tail(sets))

(***************************************************************************)
(* SpecOptions: a caller holds one configurable sampler and reads and      *)
(* writes its options through find_option_definition, get_option,          *)
(* set_option and configure.                                               *)
(***************************************************************************)
OptionSamplers ==
    {SampleMirostat1(4, 2, 1), SampleMirostat2(2, 1), SampleTopK(2, 1), SampleTemperature(1),
     SampleFreqPresence(0, 0, 0), SampleRepetition(0, 0), SampleGreedy}

DeclaredKeys(slf) == {OptionRows(slf)[i].md.key : i \in 1..Len(OptionRows(slf))}

\* Declared names, prefixes, a padded name, the empty key and an unknown one.
LookupKeys(slf) ==
    DeclaredKeys(slf) \cup {<<"t">>, <<"e", "t">>, <<" ", "m", "u", " ">>, <<>>, <<"x">>}

\* Values of every kind, listed: a set would have to order values of
\* different kinds.
OptionValues == <<UInt(3), Float(1), Float(3), Bool(TRUE)>>

ConfigTexts ==
    {<<"t", "a", "u", "=", "3">>,
     <<"t", "=", "3", ":", "e", "t", "a", "=", "2">>,
     <<"m", "u", "=", "5", ":", " ", "t", "a", "u", " ", "=", " ", "1">>,
     <<"t", "a", "u", "=", "1", ":", "m", "u", "=", "5">>,
     <<"m", "u", "=", "7", ":", "m", "=", "7">>,
     <<"k", "=", "1", ":", ":", "m", "i", "n", "=", "2">>,
     <<"3">>,
     <<"m", "u", "=", "7", ":", "x", "=", "1", ":", "t", "a", "u", "=", "3">>,
     <<"l", "a", "s", "t", "=", "-", "1">>,
     <<>>}

InitOptions ==
    /\ logits = try_from_iter(<<>>)
    /\ res = SimpleSamplerResources(FALSE, None)
    /\ ret = NoCall
    /\ chain = SamplerChain_new
    /\ samp \in OptionSamplers
    /\ builder = <<>>
    /\ hist = [init |-> samp, sets |-> <<>>]
    /\ steps = 0

FindOption ==
    \E key \in LookupKeys(samp) :
        /\ steps < MaxCalls
        /\ ret' = [op |-> "find_option_definition", key |-> key,
                   found |-> find_option_definition(sampler_options(samp), key)]
        /\ steps' = steps + 1
        /\ UNCHANGED <<logits, res, chain, samp, builder, hist>>

GetOption ==
    \E key \in LookupKeys(samp) :
        /\ steps < MaxCalls
        /\ ret' = [op |-> "get_option", key |-> key, got |-> get_option(samp, key)]
        /\ steps' = steps + 1
        /\ UNCHANGED <<logits, res, chain, samp, builder, hist>>

SetOption ==
    \E key \in LookupKeys(samp), n \in 1..Len(OptionValues) :
        /\ steps < MaxCalls
        /\ \E o \in {set_option(samp, key, OptionValues[n])} :
               /\ samp' = o.self
               /\ hist' = [hist EXCEPT !.sets = @ \o o.applied]
               /\ ret' = [op |-> "set_option", key |-> key, val |-> OptionValues[n], ok |-> o.ok,
                          err |-> o.err, applied |-> o.applied, before |-> samp]
        /\ steps' = steps + 1
        /\ UNCHANGED <<logits, res, chain, builder>>

Configure ==
    \E s \in ConfigTexts :
        /\ steps < MaxCalls
        /\ \E o \in {configure(samp, s)} :
               /\ samp' = o.self
               /\ hist' = [hist EXCEPT !.sets = @ \o o.applied]
               /\ ret' = [op |-> "configure", text |-> s, ok |-> o.ok, err |-> o.err,
                          applied |-> o.applied, before |-> samp]
        /\ steps' = steps + 1
        /\ UNCHANGED <<logits, res, chain, builder>>

NextOptions ==
    \/ FindOption
    \/ GetOption
    \/ SetOption
    \/ Configure

SpecOptions == InitOptions /\ [][NextOptions]_vars

\* C4: a lookup with a key that is exactly a declared option name of the
\* sampler resolves to that option, also when the name is a prefix of
\* another declared name.
C4_ExactNameResolves ==
    (ret.op = "find_option_definition" /\ ret.key \in DeclaredKeys(samp))
        => (ret.found.ok /\ ret.found.omd.key = ret.key)

\* The option of the sampler declared under exactly this name and of the
\* kind of this value, if there is one.
DeclaredAs(slf, key, val) ==
    \E i \in 1..Len(OptionRows(slf)) :
        OptionRows(slf)[i].md.key = key /\ OptionRows(slf)[i].md.option_type = val.type

\* C5: set_option with the declared name of an option and a value of the
\* option's kind succeeds, and get_option with that name then returns the
\* value.
C5_SetThenGetRoundTrip ==
    (ret.op = "set_option" /\ DeclaredAs(ret.before, ret.key, ret.val))
        => /\ ret.ok
           /\ get_option(samp, ret.key).ok
           /\ get_option(samp, ret.key).val = ret.val

\* C6: on a Mirostat v1 or v2 sampler, after any sequence of successful
\* option sets, mu is twice tau if the last set among tau and mu was tau,
\* the last value set for mu if it was mu, and the constructed value if
\* neither was set; a set of any other option leaves mu alone.
C6_MuFollowsLastTauOrMuSet ==
    IsMirostat(samp) =>
        /\ samp.mu = AfterSets(hist.init, hist.sets).mu
        /\ samp.tau = AfterSets(hist.init, hist.sets).tau

\* C6 witness: tau was set through a prefix of its name, then another
\* option, and mu is twice the new tau and no longer the constructed value.
C6_Witness ==
    /\ IsMirostat(samp)
    /\ Len(hist.sets) = 2
    /\ hist.sets[1].key = <<"t", "a", "u">>
    /\ hist.sets[2].key = <<"e", "t", "a">>
    /\ samp.mu = 2 * hist.sets[1].val.v
    /\ samp.mu # hist.init.mu


(***************************************************************************)
(* configure/build.rs: SamplerChainBuilder::into_chain                     *)
(***************************************************************************)
\* Variant: a Single slot contributes nothing.
SlotSamplers_chains(slot) ==
    CASE slot.type = "Static" -> <<slot.factory>>
      [] slot.type = "Single" -> <<>>
      [] slot.type = "Chain"  -> slot.samplers

\* What one slot contributes to the chain, in order.
SlotSamplers(slot) ==
    CASE slot.type = "Static" -> <<slot.factory>>
      [] slot.type = "Single" -> IF IsSome(slot.sampler) THEN <<Unwrap(slot.sampler)>> ELSE <<>>
      [] slot.type = "Chain"  -> slot.samplers

RECURSIVE PushAll(_, _)
PushAll(c, samplers) ==
    IF samplers = <<>> THEN c
    ELSE PushAll(push_sampler(c, Head(samplers)), Tail(samplers))

RECURSIVE IntoChainFold(_, _)
IntoChainFold(c, slots) ==
    IF slots = <<>> THEN c
    ELSE IntoChainFold(PushAll(c, SlotSamplers(Head(slots).slot)), Tail(slots))

into_chain(self) == IntoChainFold(SamplerChain_new, self)

(***************************************************************************)
(* SpecBuilder: a caller holds a SamplerChainBuilder, configures its slots *)
(* by name and at last turns it into a chain.                              *)
(***************************************************************************)
Slot(name, slot) == [name |-> name, slot |-> slot]

Builders ==
    {<<Slot("rep", new_chain(SampleRepetition(0, 0), <<>>)),
       Slot("freqpres", new_single(SampleFreqPresence(0, 0, 0), None)),
       Slot("miro", new_single(SampleMirostat2(2, 1), None)),
       Slot("greedy", new_static(SampleGreedy))>>,
     <<Slot("rep", new_chain(SampleRepetition(0, 0), <<SampleRepetition(2, 8)>>)),
       Slot("freqpres", new_single(SampleFreqPresence(0, 0, 0),
                                   Some(SampleFreqPresence(1, 1, 8)))),
       Slot("greedy", new_static(SampleGreedy)),
       Slot("rep", new_chain(SampleTopK(2, 1), <<>>))>>}

SlotNames == {"rep", "freqpres", "miro", "greedy", "nope"}

BuilderTexts ==
    {<<"p", "e", "n", "a", "l", "t", "y", "=", "3", ":", "l", "a", "s", "t", "_", "n", "=", "4">>,
     <<"l", "a", "s", "t", "_", "n", "=", "4">>,
     <<"f", "r", "e", "q", "u", "e", "n", "c", "y", "=", "2">>,
     <<"p", "r", "e", "s", "=", "3", ":", "l", "a", "s", "t", "=", "x">>,
     <<"t", "a", "u", "=", "3">>,
     <<"m", "u", "=", "1">>,
     <<>>}

InitBuilder ==
    /\ logits = try_from_iter(<<>>)
    /\ res = SimpleSamplerResources(FALSE, None)
    /\ ret = NoCall
    /\ chain = SamplerChain_new
    /\ samp = NoCall
    /\ builder \in Builders
    /\ hist = [init |-> builder, calls |-> <<>>]
    /\ steps = 0

\* into_chain takes the builder by value: no call follows it.
BuilderLive == ret.op # "into_chain"

BuilderConfigure ==
    \E name \in SlotNames, s \in BuilderTexts :
        /\ BuilderLive
        /\ steps < MaxCalls
        /\ \E o \in {SamplerChainBuilder_configure(builder, name, s)} :
               /\ builder' = o.self
               /\ hist' = [hist EXCEPT !.calls =
                              Append(@, [name |-> name, ok |-> o.ok, applied |-> o.applied])]
               /\ ret' = [op |-> "builder_configure", name |-> name, text |-> s,
                          ok |-> o.ok, err |-> o.err, applied |-> o.applied,
                          before |-> builder]
        /\ steps' = steps + 1
        /\ UNCHANGED <<logits, res, chain, samp>>

IntoChain ==
    /\ BuilderLive
    /\ chain' = into_chain(builder)
    /\ ret' = [op |-> "into_chain", before |-> builder]
    /\ UNCHANGED <<logits, res, samp, builder, hist, steps>>

NextBuilder ==
    \/ BuilderConfigure
    \/ IntoChain

SpecBuilder == InitBuilder /\ [][NextBuilder]_vars

\* The slot the last configure call addressed, before and after the call.
Addressed == FindSlot(ret.before, ret.name)

ConfiguredSlot(type) ==
    /\ ret.op = "builder_configure"
    /\ Addressed # 0
    /\ ret.before[Addressed].slot.type = type

OtherSlotsUntouched ==
    /\ Len(builder) = Len(ret.before)
    /\ \A j \in 1..Len(builder) : j # Addressed => builder[j] = ret.before[j]

\* The successful calls made so far that addressed slot i.
RECURSIVE CallsOn(_, _, _)
CallsOn(self, calls, i) ==
    IF calls = <<>> THEN <<>>
    ELSE (IF Head(calls).ok /\ FindSlot(self, Head(calls).name) = i
          THEN <<Head(calls)>> ELSE <<>>)
         \o CallsOn(self, Tail(calls), i)

RECURSIVE AllSets(_)
AllSets(calls) == IF calls = <<>> THEN <<>> ELSE Head(calls).applied \o AllSets(Tail(calls))

\* C9: a Single slot holds at most one sampler.  A successful configure on
\* the empty slot stores the factory's sampler with the sets of the call;
\* a configure on a filled slot acts on the sampler that is there, so every
\* option the call does not set keeps its value; a failed configure on the
\* empty slot leaves it empty.
C9_SingleSlotKeepsItsSampler ==
    ConfiguredSlot("Single") =>
        /\ OtherSlotsUntouched
        /\ builder[Addressed].name = ret.name
        /\ builder[Addressed].slot.type = "Single"
        /\ builder[Addressed].slot.factory = ret.before[Addressed].slot.factory
        /\ IF IsSome(ret.before[Addressed].slot.sampler)
           THEN builder[Addressed].slot.sampler =
                    Some(AfterSets(Unwrap(ret.before[Addressed].slot.sampler), ret.applied))
           ELSE IF ret.ok
           THEN builder[Addressed].slot.sampler =
                    Some(AfterSets(ret.before[Addressed].slot.factory, ret.applied))
           ELSE builder[Addressed].slot.sampler = None

\* C9 witness: a second successful configure on a Single slot set one
\* option, and the option the first call had set still has its value,
\* which is not the factory's.
C9_Witness ==
    /\ ConfiguredSlot("Single")
    /\ ret.ok
    /\ ret.name = "freqpres"
    /\ Len(hist.calls) = 2
    /\ hist.calls[1].ok
    /\ hist.calls[1].name = "freqpres"
    /\ ~IsSome(hist.init[Addressed].slot.sampler)
    /\ Unwrap(builder[Addressed].slot.sampler) = SampleFreqPresence(2, 0, 4)

\* C10: a successful configure on a Chain slot appends one sampler, the
\* factory's with the sets of that call alone, behind the samplers that
\* were there, which keep their places and values; a failed one appends
\* nothing.  So the slot holds its initial samplers followed by one sampler
\* for every successful call, in call order.
C10_ChainSlotAppendsFresh ==
    /\ ConfiguredSlot("Chain") =>
           /\ OtherSlotsUntouched
           /\ builder[Addressed].slot.type = "Chain"
           /\ builder[Addressed].slot.factory = ret.before[Addressed].slot.factory
           /\ builder[Addressed].slot.samplers =
                  IF ret.ok
                  THEN Append(ret.before[Addressed].slot.samplers,
                              AfterSets(ret.before[Addressed].slot.factory, ret.applied))
                  ELSE ret.before[Addressed].slot.samplers
    /\ \A i \in 1..Len(builder) :
           builder[i].slot.type = "Chain" =>
               builder[i].slot.samplers =
                   hist.init[i].slot.samplers
                   \o [k \in 1..Len(CallsOn(hist.init, hist.calls, i)) |->
                          AfterSets(builder[i].slot.factory,
                                    CallsOn(hist.init, hist.calls, i)[k].applied)]

\* C10 witness: two successful configure calls on a Chain slot that held a
\* sampler: it now holds that one and the two new ones in call order.
C10_Witness ==
    /\ ConfiguredSlot("Chain")
    /\ ret.ok
    /\ Len(hist.calls) = 2
    /\ hist.calls[1].ok
    /\ hist.calls[1].name = ret.name
    /\ hist.calls[1].applied # ret.applied
    /\ builder[Addressed].slot.samplers =
           <<SampleRepetition(2, 8), SampleRepetition(3, 4), SampleRepetition(0, 4)>>

\* How many stages a slot stands for.
Contribution(slot) ==
    CASE slot.type = "Static" -> 1
      [] slot.type = "Single" -> IF slot.sampler = None THEN 0 ELSE 1
      [] slot.type = "Chain"  -> Len(slot.samplers)

\* The number of stages the slots before slot i stand for.
RECURSIVE StagesBefore(_, _)
StagesBefore(self, i) ==
    IF i <= 1 THEN 0
    ELSE StagesBefore(self, i - 1) + Contribution(self[i - 1].slot)

\* C11: into_chain yields the samplers of the slots in registration order:
\* one instance for a Static slot, the instance of a Single slot if there
\* is one, every instance of a Chain slot in append order, and no other
\* stage.
C11_IntoChainKeepsSlotOrder ==
    ret.op = "into_chain" =>
        /\ Len(chain.samplers) = StagesBefore(ret.before, Len(ret.before) + 1)
        /\ \A i \in 1..Len(ret.before) :
               CASE ret.before[i].slot.type = "Static" ->
                        chain.samplers[StagesBefore(ret.before, i) + 1]
                            = ret.before[i].slot.factory
                 [] ret.before[i].slot.type = "Single" ->
                        \/ ret.before[i].slot.sampler = None
                        \/ chain.samplers[StagesBefore(ret.before, i) + 1]
                               = Unwrap(ret.before[i].slot.sampler)
                 [] ret.before[i].slot.type = "Chain" ->
                        \A k \in 1..Len(ret.before[i].slot.samplers) :
                            chain.samplers[StagesBefore(ret.before, i) + k]
                                = ret.before[i].slot.samplers[k]

\* C11 witness: a chain made from a builder with a Chain slot of two
\* samplers, a filled Single slot behind it and a Static slot behind that.
C11_Witness ==
    /\ ret.op = "into_chain"
    /\ Len(ret.before) >= 3
    /\ ret.before[1].slot.type = "Chain"
    /\ Len(ret.before[1].slot.samplers) = 2
    /\ ret.before[2].slot.type = "Single"
    /\ ret.before[2].slot.sampler # None
    /\ ret.before[3].slot.type = "Static"
    /\ Len(chain.samplers) = 4
    /\ chain.samplers[3] = Unwrap(ret.before[2].slot.sampler)
    /\ chain.samplers[4] = SampleGreedy

\* The outcome of configuring the sampler of a slot with a text: the
\* sampler a Single slot holds, else one fresh from the factory.
SlotOutcome(slot, s) ==
    configure(IF slot.type = "Single" /\ slot.sampler # None
              THEN Unwrap(slot.sampler) ELSE slot.factory, s)

ConfigureOutcomeIs(name, o) ==
    IF o.ok THEN ret.ok
    ELSE /\ ~ret.ok
         /\ ret.err.kind = "ConfigureFailed"
         /\ ret.err.name = name
         /\ ret.err.err = o.err

\* C12: SamplerChainBuilder::configure fails with UnknownSlot when no slot
\* has the name, with CannotConfigureStatic when the named slot is Static,
\* with ConfigureFailed carrying the slot name and the cause when
\* configuring the sampler fails, and succeeds in every other case.
C12_ConfigureFailures ==
    ret.op = "builder_configure" =>
        IF \A i \in 1..Len(ret.before) : ret.before[i].name # ret.name
        THEN ~ret.ok /\ ret.err = [kind |-> "UnknownSlot", name |-> ret.name]
        ELSE IF ret.before[Addressed].slot.type = "Static"
        THEN ~ret.ok /\ ret.err = [kind |-> "CannotConfigureStatic", name |-> ret.name]
        ELSE ConfigureOutcomeIs(ret.name, SlotOutcome(ret.before[Addressed].slot, ret.text))

\* C12 witness: a configure on a Single slot whose text has a value that
\* does not parse failed with ConfigureFailed naming the slot.
C12_Witness ==
    /\ ConfiguredSlot("Single")
    /\ ~ret.ok
    /\ ret.err.kind = "ConfigureFailed"
    /\ ret.err.name = "freqpres"
    /\ ret.err.err.kind = "ParseIntError"

\* The declared option names of the sampler that begin with the key k.
NamesStarting(slf, k) ==
    {n \in DeclaredKeys(slf) : Len(k) <= Len(n) /\ SubSeq(n, 1, Len(k)) = k}

\* C13: a lookup by key k (blanks around it dropped) fails with
\* UnknownOrBadType when no declared name starts with k, fails with
\* AmbiguousKey when two or more do, and yields the one option whose name
\* starts with k otherwise; so the empty key succeeds exactly when the
\* sampler declares a single option.
C13_LookupByPrefix ==
    ret.op = "find_option_definition" =>
        /\ Cardinality(NamesStarting(samp, trim(ret.key))) = 0
               => ~ret.found.ok /\ ret.found.err.kind = "UnknownOrBadType"
        /\ Cardinality(NamesStarting(samp, trim(ret.key))) >= 2
               => ~ret.found.ok /\ ret.found.err.kind = "AmbiguousKey"
        /\ Cardinality(NamesStarting(samp, trim(ret.key))) = 1
               => ret.found.ok /\ NamesStarting(samp, trim(ret.key)) = {ret.found.omd.key}
        /\ ret.key = <<>> => (ret.found.ok <=> Cardinality(DeclaredKeys(samp)) = 1)

\* C13 witness: the key "t" resolved to tau on a Mirostat sampler, the
\* only one of its several options whose name starts with it.
C13_Witness ==
    /\ ret.op = "find_option_definition"
    /\ ret.key = <<"t">>
    /\ IsMirostat(samp)
    /\ ret.found.ok
    /\ ret.found.omd.key = <<"t", "a", "u">>

\* The places a text is cut at: before its start, at every ':' and behind
\* its end; the piece that begins behind the cut c.
Cuts(s) == {0, Len(s) + 1} \cup {i \in 1..Len(s) : s[i] = ":"}

PieceAt(s, c) ==
    SubSeq(s, c + 1, (CHOOSE d \in Cuts(s) : d > c /\ \A e \in Cuts(s) : e > c => d <= e) - 1)

\* The cuts that begin a piece with something other than blanks in it.
SegmentCuts(s) ==
    {c \in Cuts(s) \ {Len(s) + 1} :
        \E i \in 1..Len(PieceAt(s, c)) : PieceAt(s, c)[i] # " "}

\* The n-th non-empty segment of the text, blanks around it dropped.
SegmentNo(s, n) ==
    trim(PieceAt(s, CHOOSE c \in SegmentCuts(s) :
                        Cardinality({d \in SegmentCuts(s) : d < c}) = n - 1))

\* The segment resolves on the sampler slf to the option a.key, its value
\* parses to a.val and the set succeeds.
SegmentSetsOption(slf, kv, found, a) ==
    /\ found.ok
    /\ found.omd.key = a.key
    /\ parse_value(found.omd.option_type, kv[2]).ok
    /\ parse_value(found.omd.option_type, kv[2]).val = a.val
    /\ set_option(slf, a.key, a.val).ok

\* The segment fails on the sampler slf with err: its key does not
\* resolve, or else its value does not parse, or else the set fails.
SegmentFailsWith(slf, kv, found, err) ==
    IF ~found.ok THEN err = found.err
    ELSE IF ~parse_value(found.omd.option_type, kv[2]).ok
    THEN err = parse_value(found.omd.option_type, kv[2]).err
    ELSE /\ ~set_option(slf, found.omd.key, parse_value(found.omd.option_type, kv[2]).val).ok
         /\ err = set_option(slf, found.omd.key,
                             parse_value(found.omd.option_type, kv[2]).val).err

\* C14: configure applies the non-empty segments of the text from left to
\* right; at the first segment whose key does not resolve, whose value
\* does not parse or whose set fails it returns that failure, applies no
\* later segment, and the options the earlier segments set keep their new
\* values.
C14_FirstBadSegmentStops ==
    ret.op = "configure" =>
        /\ Len(ret.applied) <= Cardinality(SegmentCuts(ret.text))
        /\ ret.ok <=> Len(ret.applied) = Cardinality(SegmentCuts(ret.text))
        /\ samp = AfterSets(ret.before, ret.applied)
        /\ \A i \in 1..Len(ret.applied) :
               SegmentSetsOption(
                   AfterSets(ret.before, SubSeq(ret.applied, 1, i - 1)),
                   KeyValue(SegmentNo(ret.text, i)),
                   find_option_definition(sampler_options(ret.before),
                                          KeyValue(SegmentNo(ret.text, i))[1]),
                   ret.applied[i])
        /\ ~ret.ok =>
               SegmentFailsWith(
                   samp,
                   KeyValue(SegmentNo(ret.text, Len(ret.applied) + 1)),
                   find_option_definition(
                       sampler_options(ret.before),
                       KeyValue(SegmentNo(ret.text, Len(ret.applied) + 1))[1]),
                   ret.err)

\* C14 witness: of three segments the first set mu, the second had an
\* unknown key and the third, a valid set of tau, was not applied.
C14_Witness ==
    /\ ret.op = "configure"
    /\ Cardinality(SegmentCuts(ret.text)) = 3
    /\ ~ret.ok
    /\ ret.err.kind = "UnknownOrBadType"
    /\ Len(ret.applied) = 1
    /\ IsMirostat(samp)
    /\ samp.mu = 7
    /\ ret.before.mu # 7
    /\ samp.tau = ret.before.tau

\* C15: SampleTopK on a collection of n entries succeeds and returns
\* min(max(k, min_keep), n) entries: the entries of highest logit, in
\* descending logit order, ties in the order they had.
C15_TopKKeepsHighest ==
    (ret.op = "sample" /\ ret.sampler.kind = "top_k") =>
        /\ ret.ok
        /\ Len(logits.logits) =
               Min(Max(ret.sampler.k, ret.sampler.min_keep), Len(ret.before.logits))
        /\ logits.logits = Take(SortDesc(ret.before.logits), Len(logits.logits))

\* Token t occurs among the trailing min(last_n, history length) tokens of
\* the history.
InTrailing(h, last_n, t) ==
    \E i \in 1..Len(h) : i > Len(h) - Min(last_n, Len(h)) /\ h[i] = t

\* C16: SampleRepetition with repetition_penalty > 1 and last_n > 0 changes
\* the entries whose token id occurs in the trailing min(last_n, history
\* length) tokens and no other: a logit <= 0 is multiplied by the penalty,
\* a logit > 0 is divided by it, once whatever the number of occurrences.
C16_PenalizesWindowOnce ==
    (/\ Sampled("repetition")
     /\ ret.sampler.repetition_penalty > 1
     /\ ret.sampler.last_n > 0) =>
        /\ ret.ok
        /\ Len(logits.logits) = Len(ret.before.logits)
        /\ \A i \in 1..Len(logits.logits) :
               /\ logits.logits[i].token_id = ret.before.logits[i].token_id
               /\ logits.logits[i].prob = ret.before.logits[i].prob
               /\ IF InTrailing(Unwrap(res.last_tokens), ret.sampler.last_n,
                                ret.before.logits[i].token_id)
                  THEN IF ret.before.logits[i].logit <= 0
                       THEN logits.logits[i].logit =
                                ret.before.logits[i].logit * ret.sampler.repetition_penalty
                       ELSE logits.logits[i].logit * ret.sampler.repetition_penalty =
                                ret.before.logits[i].logit
                  ELSE logits.logits[i].logit = ret.before.logits[i].logit

\* C16 witness: with the window <<1, 2, 2, 2>> the entry of token 0 kept its
\* logit, the negative logit of token 1 was doubled and the positive logit
\* of token 2, three times in the window, was halved once.
C16_Witness ==
    /\ Sampled("repetition")
    /\ ret.sampler.repetition_penalty = 2
    /\ ret.sampler.last_n = 4
    /\ Unwrap(res.last_tokens) = <<0, 1, 2, 2, 2>>
    /\ [i \in 1..Len(ret.before.logits) |-> ret.before.logits[i].logit] = <<1, -2, 2>>
    /\ [i \in 1..Len(logits.logits) |-> logits.logits[i].logit] = <<1, -4, 1>>

\* The token id of the first entry of s, in the order s has, whose logit no
\* entry exceeds; nothing for an empty s.
FirstMaximum(s) ==
    IF s = <<>> THEN None
    ELSE Some(s[CHOOSE i \in 1..Len(s) :
                    /\ \A j \in 1..Len(s) : s[j].logit <= s[i].logit
                    /\ \A j \in 1..(i - 1) : s[j].logit < s[i].logit].token_id)

\* The token ids a FlatBias stage sets to negative infinity.
Banned(s) == {s.bias[i][1] : i \in {j \in 1..Len(s.bias) : s.bias[j][2] = NEG_INFINITY}}

\* The chain is FlatBias stages that only set tokens to negative infinity,
\* followed by one SampleGreedy.
BiasThenGreedy ==
    /\ Len(chain.samplers) >= 2
    /\ chain.samplers[Len(chain.samplers)].kind = "greedy"
    /\ \A i \in 1..(Len(chain.samplers) - 1) :
           /\ chain.samplers[i].kind = "flat_bias"
           /\ \A j \in 1..Len(chain.samplers[i].bias) :
                  chain.samplers[i].bias[j][2] = NEG_INFINITY

BannedByChain ==
    UNION {Banned(chain.samplers[i]) : i \in 1..(Len(chain.samplers) - 1)}

\* The entries of s whose token id is not in B, in the order of s.
Outside(s, B) == SelectSeq(s, LAMBDA l : l.token_id \notin B)

\* C17: a SampleGreedy stage reports the token id of the first entry, in
\* the order the collection has, that holds the maximum logit, whether the
\* collection is sorted or not; it returns the collection as it received
\* it, entries and sorted flag, and reports nothing on an empty one.  So a
\* chain of FlatBias stages setting the tokens of B to negative infinity
\* followed by SampleGreedy selects, on fresh logits with a token outside
\* B, the lowest-id token of maximum logit outside B.
C17_GreedyFirstMaximum ==
    ret.op = "chain_sample" =>
        /\ \A i \in 1..Len(ret.trace) :
               chain.samplers[i].kind = "greedy" =>
                   /\ ret.trace[i].ok
                   /\ ret.trace[i].output = ret.trace[i].input
                   /\ ret.trace[i].token = FirstMaximum(ret.trace[i].input.logits)
        /\ (BiasThenGreedy /\ Outside(ret.before.logits, BannedByChain) # <<>>) =>
               /\ ret.ok
               /\ chain.token = FirstMaximum(Outside(ret.before.logits, BannedByChain))

\* C17 witness: FlatBias setting token 0 to negative infinity, then
\* SampleGreedy, on the fresh logits <<1, 0, 0>>: token 1 is selected, the
\* lower of the two tokens that tie for the maximum outside B.
C17_Witness ==
    /\ ret.op = "chain_sample"
    /\ BiasThenGreedy
    /\ BannedByChain = {0}
    /\ [i \in 1..Len(ret.before.logits) |-> ret.before.logits[i].logit] = <<1, 0, 0>>
    /\ chain.token = Some(1)
    /\ ret.trace[2].input.logits[1].logit = NEG_INFINITY
    /\ ret.trace[2].output = ret.trace[2].input

\* What the key of the last call resolved to on the sampler before it.
Resolved == find_option_definition(sampler_options(ret.before), trim(ret.key))

\* C18: set_option with a key that resolves to an option and a value whose
\* kind is not the kind the option declares fails with UnknownOrBadType
\* and leaves the value of that option and of every other option as it
\* was.  An unsigned value for a real option, or the reverse, is such a
\* mismatch too.
C18_WrongKindRejected ==
    (/\ ret.op = "set_option"
     /\ Resolved.ok
     /\ IsSome(Resolved.optidx)
     /\ ret.val.type # Resolved.omd.option_type) =>
        /\ ~ret.ok
        /\ ret.err = UnknownOrBadType(trim(ret.key))
        /\ samp = ret.before

\* C18 witness: a boolean offered to the real-valued option temperature.
C18_Witness ==
    /\ ret.op = "set_option"
    /\ ret.before.kind = "temperature"
    /\ Resolved.ok
    /\ Resolved.omd.option_type = "Float"
    /\ ret.val.type = "Bool"
    /\ ~ret.ok
    /\ samp.temperature = ret.before.temperature

(***************************************************************************)
(* SpecSoftmax: a caller builds a Logits collection, the two infinities    *)
(* among its values, and calls Logits::softmax on it, more than once.      *)
(***************************************************************************)
SoftmaxVals == {NEG_INFINITY, 0, 1, INFINITY}

SoftmaxInputs == {try_from_iter(v) : v \in SeqsUpTo(SoftmaxVals, MaxLen)}

InitSoftmax ==
    /\ logits \in SoftmaxInputs
    /\ res = SimpleSamplerResources(FALSE, None)
    /\ ret = NoCall
    /\ chain = SamplerChain_new
    /\ samp = NoCall
    /\ builder = <<>>
    /\ hist = <<>>
    /\ steps = 0

Softmax ==
    /\ steps < MaxSteps
    /\ logits' = softmax(logits)
    /\ ret' = [op |-> "softmax", before |-> logits]
    /\ steps' = steps + 1
    /\ UNCHANGED <<res, chain, samp, builder, hist>>

NextSoftmax == Softmax

SpecSoftmax == InitSoftmax /\ [][NextSoftmax]_vars

\* The sum of the probabilities of s as a fraction.
RECURSIVE ProbSum(_)
ProbSum(s) ==
    IF s = <<>> THEN Fraction(0, 1)
    ELSE Fraction(Head(s).prob.num * ProbSum(Tail(s)).den
                      + ProbSum(Tail(s)).num * Head(s).prob.den,
                  Head(s).prob.den * ProbSum(Tail(s)).den)

\* p is a number (not NaN) and p >= 0.
NonNegative(p) == p.den > 0 /\ p.num >= 0

\* C19: after softmax on a non-empty collection, infinite logits allowed,
\* every probability is a non-negative number, the probabilities sum to 1,
\* the collection is in descending logit order, and a second softmax
\* leaves every probability as the first one made it.
C19_SoftmaxIsDistribution ==
    (ret.op = "softmax" /\ ret.before.logits # <<>>) =>
        /\ \A i \in 1..Len(logits.logits) : NonNegative(logits.logits[i].prob)
        /\ ProbSum(logits.logits).den > 0
        /\ ProbSum(logits.logits).num = ProbSum(logits.logits).den
        /\ logits.sorted
        /\ IsDescending(logits.logits)
        /\ steps >= 2 => logits = ret.before

(***************************************************************************)
(* SpecBuilder: the builder after a failing configure.                     *)
(***************************************************************************)
ConfigureFailedCall == ret.op = "builder_configure" /\ ~ret.ok

\* Slot i of the builder before the call is the Single slot the call
\* addressed, and it held a sampler.
PopulatedTarget(i) ==
    /\ i = FindSlot(ret.before, ret.name)
    /\ ret.before[i].slot.type = "Single"
    /\ IsSome(ret.before[i].slot.sampler)

\* C20 (as claimed): when SamplerChainBuilder::configure returns an error
\* the builder is as it was before the call: its slots, the samplers they
\* hold and every option value of those samplers.
C20_FailedConfigureChangesNothing ==
    ConfigureFailedCall => builder = ret.before

\* C20 (amended): when SamplerChainBuilder::configure returns an error the
\* list of slots and the samplers every slot holds are as before the call,
\* and so is every option value, except in the sampler of an
\* already-populated Single slot the call addressed: it keeps the values
\* set by the segments of the text that came before the failing one.
C20_FailedConfigureKeepsEarlierSets ==
    ConfigureFailedCall =>
        /\ Len(builder) = Len(ret.before)
        /\ \A i \in 1..Len(builder) :
               IF PopulatedTarget(i)
               THEN builder[i] =
                        [ret.before[i] EXCEPT !.slot.sampler =
                            Some(AfterSets(Unwrap(@), ret.applied))]
               ELSE builder[i] = ret.before[i]

\* C20 witness: on the populated Single slot freqpres a text set
\* presence_penalty and then failed at its second segment: the call
\* returned ConfigureFailed and the sampler has the new presence_penalty.
C20_Witness ==
    /\ ConfigureFailedCall
    /\ ret.err.kind = "ConfigureFailed"
    /\ \E i \in 1..Len(builder) :
           /\ PopulatedTarget(i)
           /\ Len(ret.applied) = 1
           /\ Unwrap(builder[i].slot.sampler).presence_penalty = 3
           /\ Unwrap(ret.before[i].slot.sampler).presence_penalty # 3
           /\ Unwrap(builder[i].slot.sampler).last_n =
                  Unwrap(ret.before[i].slot.sampler).last_n

(***************************************************************************)
(* SpecLogits: samplers that target token ids.                             *)
(***************************************************************************)
\* The sum of the bias values the list gives for token id t.
RECURSIVE BiasFor(_, _)
BiasFor(bias, t) ==
    IF bias = <<>> THEN 0
    ELSE (IF Head(bias)[1] = t THEN Head(bias)[2] ELSE 0) + BiasFor(Tail(bias), t)

\* C21: SampleFlatBias adds each bias to the entry whose token_id is the
\* id of the pair, and SampleSeqRepetition changes only entries whose
\* token_id is a token it penalizes, and no other entry, also when an
\* earlier stage has sorted or truncated the collection.
C21_TargetsByTokenId ==
    /\ (ret.op = "sample" /\ ret.sampler.kind = "flat_bias") =>
           /\ ret.ok
           /\ Len(logits.logits) = Len(ret.before.logits)
           /\ \A i \in 1..Len(logits.logits) :
                  /\ logits.logits[i].token_id = ret.before.logits[i].token_id
                  /\ logits.logits[i].logit =
                         ret.before.logits[i].logit
                             + BiasFor(ret.sampler.bias, ret.before.logits[i].token_id)
    /\ (Sampled("seq_repetition") /\ ret.ok) =>
           \A i \in 1..Len(logits.logits) :
               logits.logits[i].logit # ret.before.logits[i].logit =>
                   ret.before.logits[i].token_id
                       \in DOMAIN Penalize(ret.sampler, Unwrap(res.last_tokens))

(***************************************************************************)
(* SpecFilters: a caller builds a Logits collection and applies the        *)
(* filters that have a min_keep parameter to it, one after the other.      *)
(***************************************************************************)
FilterVals == 0..2

FilterInputs ==
    {try_from_iter(v) : v \in SeqsUpTo(FilterVals, MaxLen)}
        \cup {try_from_iter(<<3, 2, 0, 0>>)}

TopPSamplers ==
    {SampleTopP(Fraction(1, 1), 1), SampleTopP(Fraction(0, 1), 1),
     SampleTopP(Fraction(1, 2), 1), SampleTopP(Fraction(1, 2), 2),
     SampleTopP(Fraction(3, 4), 0)}
TailFreeSamplers ==
    {SampleTailFree(Fraction(1, 4), 1), SampleTailFree(Fraction(3, 4), 1),
     SampleTailFree(Fraction(1, 2), 0), SampleTailFree(Fraction(1, 2), 2),
     SampleTailFree(Fraction(1, 1), 1)}
MinPSamplers ==
    {SampleMinP(Fraction(1, 2), 1), SampleMinP(Fraction(1, 2), 0),
     SampleMinP(Fraction(1, 1), 2), SampleMinP(Fraction(0, 1), 1)}
TopASamplers ==
    {SampleTopA(Fraction(1, 2), 1, 1), SampleTopA(Fraction(1, 1), 2, 0),
     SampleTopA(Fraction(1, 1), 2, 2), SampleTopA(Fraction(0, 1), 1, 1)}

InitFilters ==
    /\ logits \in FilterInputs
    /\ res = set_logits(SimpleSamplerResources(FALSE, None), Some(try_from_iter(<<0, 1>>)))
    /\ ret = NoCall
    /\ chain = SamplerChain_new
    /\ samp = NoCall
    /\ builder = <<>>
    /\ hist = <<>>
    /\ steps = 0

ApplyTopP == \E s \in TopPSamplers : CanApply /\ Apply(s, Det)
ApplyTailFree == \E s \in TailFreeSamplers : CanApply /\ Apply(s, Det)
ApplyMinP == \E s \in MinPSamplers : CanApply /\ Apply(s, Det)
ApplyTopA == \E s \in TopASamplers : CanApply /\ Apply(s, Det)

NextFilters ==
    \/ ApplyTopK
    \/ ApplyTopP
    \/ ApplyMinP
    \/ ApplyTopA
    \/ ApplyTailFree
    \/ ApplyLocallyTypical

SpecFilters == InitFilters /\ [][NextFilters]_vars

\* s is a prefix of t.
IsPrefix(s, t) == Len(s) <= Len(t) /\ s = SubSeq(t, 1, Len(s))

\* The entries without their probabilities.
Scores(s) == [i \in 1..Len(s) |-> [token_id |-> s[i].token_id, logit |-> s[i].logit]]

\* C22: SampleTailFree never fails: with z >= 1 or fewer than 2 entries it
\* returns the collection as it was, and with z < 1 and 2 or more entries,
\* exactly 2 included, it returns a prefix of the sorted collection.
C22_TailFreeNeverFails ==
    (ret.op = "sample" /\ ret.sampler.kind = "tail_free") =>
        /\ ret.ok
        /\ IF ret.sampler.z.num >= ret.sampler.z.den \/ Len(ret.before.logits) < 2
           THEN logits = ret.before
           ELSE IsPrefix(Scores(logits.logits),
                         Scores(ensure_sorted(ret.before).logits))

\* exp(l - lo) as the model counts it, for the logit l of an entry.
WeightOf(l, lo) == IF l = NEG_INFINITY THEN 0 ELSE Pow(2, l - lo)

\* The sum of the weights of the first k entries of s.
PrefixWeight(s, k, lo) == SumSeq([i \in 1..k |-> WeightOf(s[i].logit, lo)])

\* The lengths k >= min_keep of the prefixes of the entries s, sorted
\* descending, whose cumulative probability is at least p.
TopPPrefixes(s, p, min_keep) ==
    {k \in 1..Len(s) :
        /\ k >= min_keep
        /\ PrefixWeight(s, k, MinLogit(s)) * p.den
               >= p.num * PrefixWeight(s, Len(s), MinLogit(s))}

\* The length of the shortest such prefix, Len(s) when there is none.
TopPKept(s, p, min_keep) ==
    IF TopPPrefixes(s, p, min_keep) = {} THEN Len(s)
    ELSE CHOOSE k \in TopPPrefixes(s, p, min_keep) :
             \A j \in TopPPrefixes(s, p, min_keep) : k <= j

FilterCall(kind) == ret.op = "sample" /\ ret.sampler.kind = kind

FilterKinds == {"top_k", "top_p", "min_p", "top_a", "tail_free", "locally_typical"}

\* C26: a successful call of a filter with a min_keep setting (Top-K,
\* Top-P, Min-P, Top-A, Tail-Free, Locally Typical) on n entries returns at
\* least min(min_keep, n) entries, adds no entry and changes neither the
\* token id nor the logit of an entry it keeps.
C26_FiltersKeepMinKeep ==
    (ret.op = "sample" /\ ret.sampler.kind \in FilterKinds /\ ret.ok) =>
        /\ Len(logits.logits) >= Min(ret.sampler.min_keep, Len(ret.before.logits))
        /\ Len(logits.logits) <= Len(ret.before.logits)
        /\ \A i \in 1..Len(logits.logits) :
               \E j \in 1..Len(ret.before.logits) :
                   Scores(logits.logits)[i] = Scores(ret.before.logits)[j]
        /\ \A i, j \in 1..Len(logits.logits) :
               logits.logits[i].token_id = logits.logits[j].token_id => i = j

(***************************************************************************)
(* SpecSeqRep: SampleSeqRepetition::sample as a function of the history.   *)
(* One call on a collection in token-id order, the history drawn from all  *)
(* sequences of at most MaxHistory tokens.                                 *)
(***************************************************************************)
SeqRepTokens == 0..2

SeqRepSettings ==
    {SampleSeqRepetition(1, 1, ml, tol, mm, 8) :
        ml \in 2..3, tol \in 0..2, mm \in 1..2}
        \cup {SampleSeqRepetition(1, 0, 2, 0, 1, 4), SampleSeqRepetition(0, 1, 2, 1, 1, 4)}

InitSeqRep ==
    /\ logits = try_from_iter(<<0, 0, 0>>)
    /\ res \in {SimpleSamplerResources(FALSE, Some(h)) :
                    h \in SeqsUpTo(SeqRepTokens, MaxHistory)}
    /\ ret = NoCall
    /\ chain = SamplerChain_new
    /\ samp = NoCall
    /\ builder = <<>>
    /\ hist = <<>>
    /\ steps = 0

SeqRepCall ==
    \E s \in SeqRepSettings, nd \in NonDet :
        /\ steps = 0
        /\ nd.draw = 0
        /\ nd.before \subseteq SeqRepPartial(s, res, logits)
        /\ Apply(s, nd)

NextSeqRep == SeqRepCall

SpecSeqRep == InitSeqRep /\ [][NextSeqRep]_vars

\* The lengths len >= min_length of a terminal subsequence of the window w
\* that occurs earlier in w and is followed there by token t.
FollowedLengths(w, min_length, t) ==
    {len \in min_length..Len(w) : t \in Continuations(w, len)}

\* C23: SampleSeqRepetition with tolerance 0, on a collection in token-id
\* order, changes only the logit of a token that follows an earlier exact
\* occurrence, in the window, of a terminal subsequence of at least
\* min_length tokens; every other logit stays, and a changed logit is
\* decreased by the penalty of one such occurrence, not once per match.
C23_OnlyContinuationsPenalizedOnce ==
    (/\ Sampled("seq_repetition")
     /\ ret.ok
     /\ ret.sampler.tolerance = 0
     /\ \A i \in 1..Len(ret.before.logits) : ret.before.logits[i].token_id = i - 1) =>
        /\ Len(logits.logits) = Len(ret.before.logits)
        /\ \A i \in 1..Len(logits.logits) :
               /\ logits.logits[i].token_id = ret.before.logits[i].token_id
               /\ \/ logits.logits[i].logit = ret.before.logits[i].logit
                  \/ \E len \in FollowedLengths(Window, ret.sampler.min_length, i - 1) :
                         logits.logits[i].logit =
                             ret.before.logits[i].logit
                                 - ((len + 1) * ret.sampler.stacking_penalty
                                    + ret.sampler.flat_penalty)

\* C23 witness: in the history <<0, 0, 0, 0, 0>> token 0 follows several
\* earlier occurrences of the last two and of the last three tokens: its
\* logit went down by the penalty of one occurrence, the others stayed.
C23_Witness ==
    /\ Sampled("seq_repetition")
    /\ ret.ok
    /\ ret.sampler.tolerance = 0
    /\ ret.sampler.min_length = 2
    /\ Window = <<0, 0, 0, 0, 0>>
    /\ Cardinality(FollowedLengths(Window, 2, 0)) > 1
    /\ Len(logits.logits) = 3
    /\ \A i \in 1..3 : ret.before.logits[i].token_id = i - 1
    /\ logits.logits[1].logit < ret.before.logits[1].logit
    /\ logits.logits[2].logit = ret.before.logits[2].logit
    /\ logits.logits[3].logit = ret.before.logits[3].logit

\* The tokens the sampler of the last call penalizes for the history of the
\* provider when its tolerance is tol.
PenalizedWith(tol) ==
    DOMAIN Penalize([ret.sampler EXCEPT !.tolerance = tol], Unwrap(res.last_tokens))

\* The positions i of the window w where an occurrence of the terminal len
\* tokens starts in which exactly one token, not the first, is replaced,
\* and which a token follows.
ReplacedOccurrences(w, len) ==
    {i \in 1..(Len(w) - len) :
        /\ w[i] = w[Len(w) - len + 1]
        /\ Cardinality({j \in 2..len : w[i + j - 1] # w[Len(w) - len + j]}) = 1}

SeqRepActive ==
    /\ Sampled("seq_repetition")
    /\ ret.ok
    /\ Len(Window) >= 2 * ret.sampler.min_length

\* C24: raising tolerance never removes a penalty: a token penalized with
\* tolerance t is penalized with tolerance t + 1 for the same history,
\* min_length and max_merge; and with tolerance >= 1 the token that follows
\* an earlier occurrence of the terminal min_length tokens with one token
\* other than the first replaced is penalized.
C24_ToleranceOnlyAddsPenalties ==
    SeqRepActive =>
        /\ PenalizedWith(ret.sampler.tolerance)
               \subseteq PenalizedWith(ret.sampler.tolerance + 1)
        /\ ret.sampler.tolerance >= 1 =>
               \A i \in ReplacedOccurrences(Window, ret.sampler.min_length) :
                   Window[i + ret.sampler.min_length] \in PenalizedWith(ret.sampler.tolerance)

\* C26 witness: Top-P(1/2, min_keep 2) on three entries the first of which
\* alone has a probability >= 1/2: the two highest entries are kept.
C26_Witness ==
    /\ FilterCall("top_p")
    /\ ret.ok
    /\ ret.sampler.p = Fraction(1, 2)
    /\ ret.sampler.min_keep = 2
    /\ Len(ret.before.logits) = 3
    /\ Len(logits.logits) = 2
    /\ logits.logits[1].prob.num * 2 >= logits.logits[1].prob.den
    /\ Scores(logits.logits) = SubSeq(Scores(SortDesc(ret.before.logits)), 1, 2)

(***************************************************************************)
(* SpecResources: the samplers that draw from the RNG or read the history, *)
(* called with providers that hold or lack the resource.  samp is a        *)
(* Mirostat sampler that lives across the calls; every call gets a fresh   *)
(* collection.                                                             *)
(***************************************************************************)
ResourceInputs ==
    {try_from_iter(v) :
        v \in {<<>>, <<0>>, <<0, 0>>, <<1, 0, 0>>, <<2, 2, 0>>, <<3, 0, 0>>, <<4, 4, 0>>,
               <<3, 2, 2, 0>>, <<NEG_INFINITY>>}}

Providers ==
    {SimpleSamplerResources(g, h) : g \in BOOLEAN, h \in {None, Some(<<0, 0, 1, 0, 0>>)}}
        \cup {set_logits(SimpleSamplerResources(g, None), Some(try_from_iter(<<0, 1>>))) :
                  g \in BOOLEAN}

\* SampleMirostat1::new(4, 1.0, 1.0).m(0) is the sampler with m = 0.
MirostatSamplers ==
    {SampleMirostat1(4, 1, 1), SampleMirostat1(0, 1, 1),
     [SampleMirostat1(4, 1, 1) EXCEPT !.m = 0],
     SampleMirostat2(1, 1), SampleMirostat2(2, 1)}

HistorySamplers ==
    {SampleRepetition(2, 4), SampleRepetition(2, 0), SampleRepetition(1, 4),
     SampleFreqPresence(1, 1, 8), SampleFreqPresence(0, 1, 8), SampleFreqPresence(0, 0, 8),
     SampleFreqPresence(1, 1, 0),
     SampleSeqRepetition(1, 0, 2, 0, 1, 8), SampleSeqRepetition(0, 0, 2, 0, 1, 8),
     SampleSeqRepetition(1, 0, 2, 0, 1, 0)}

InitResources ==
    /\ logits = try_from_iter(<<>>)
    /\ res \in Providers
    /\ ret = NoCall
    /\ chain = SamplerChain_new
    /\ samp \in MirostatSamplers
    /\ builder = <<>>
    /\ hist = <<>>
    /\ steps = 0

\* Record of a call: the sampler as called and as left, the collection
\* before the call, the outcome and the tokens the RNG selected.
ResourceCall(s, before, o) ==
    [op |-> "sample", sampler |-> s, before |-> before, ok |-> o.ok, err |-> o.err,
     token |-> sampled_token_id(o.self), after |-> o.self, draws |-> o.draws]

\* The token a Mirostat call selected has a probability that is a power
\* of 1/2.
SurpriseExact(o) ==
    (o.ok /\ IsSome(o.self.token)) =>
        \A i \in 1..Len(o.logits.logits) :
            o.logits.logits[i].token_id = Unwrap(o.self.token)
                => IsDyadic(o.logits.logits[i].prob)

Returned(s, L, o) ==
    /\ logits' = o.logits
    /\ res' = o.res
    /\ ret' = ResourceCall(s, L, o)
    /\ steps' = steps + 1
    /\ UNCHANGED <<chain, builder, hist>>

Mirostat1Sample ==
    \E L \in ResourceInputs, k \in 0..2, draw \in 0..(MaxLen - 1) :
        /\ steps < MaxCalls
        /\ samp.kind = "mirostat1"
        /\ draw < Max(1, Len(L.logits))
        /\ \E o \in {SampleMirostat1_sample(samp, res, L, k, draw)} :
               /\ SurpriseExact(o)
               /\ samp' = o.self
               /\ Returned(samp, L, o)

Mirostat2Sample ==
    \E L \in ResourceInputs, draw, draw2 \in 0..(MaxLen - 1) :
        /\ steps < MaxCalls
        /\ samp.kind = "mirostat2"
        /\ draw < Max(1, Len(L.logits))
        /\ draw2 < Max(1, Len(L.logits))
        /\ \E o \in {SampleMirostat2_sample(samp, res, L, draw, draw2)} :
               /\ SurpriseExact(o)
               /\ samp' = o.self
               /\ Returned(samp, L, o)

\* res.with_rng_mut(&mut |r| { self.token_id = Some(logits[dist.sample(r)].token_id) })
RandDistribResult(o, r) ==
    MirostatResult(o, r, IF o.ok /\ IsSome(o.self.token_id)
                         THEN <<Unwrap(o.self.token_id)>> ELSE <<>>)

RandDistribSample ==
    \E L \in ResourceInputs, draw \in 0..(MaxLen - 1) :
        /\ steps < MaxCalls
        /\ draw < Max(1, Len(L.logits))
        /\ Returned(SampleRandDistrib, L,
                    RandDistribResult(SampleRandDistrib_sample(SampleRandDistrib, res, L, draw),
                                      res))
        /\ UNCHANGED samp

HistorySample ==
    \E L \in ResourceInputs, s \in HistorySamplers :
        /\ steps < MaxCalls
        /\ s.kind = "repetition" => RepetitionExact(s, res, L)
        /\ Returned(s, L, MirostatResult(Sample(s, res, L, Det), res, <<>>))
        /\ UNCHANGED samp

NextResources ==
    \/ Mirostat1Sample
    \/ Mirostat2Sample
    \/ RandDistribSample
    \/ HistorySample

SpecResources == InitResources /\ [][NextResources]_vars

RngKinds == {"rand_distrib", "mirostat1", "mirostat2"}
HistoryKinds == {"repetition", "freq_presence", "seq_repetition"}

\* The provider does not supply the resource the sampler s works with.
Lacking(s, r) ==
    IF s.kind \in RngKinds THEN ~r.rng ELSE ~IsSome(r.last_tokens)

\* The call of s on L is one the specification short-circuits: an empty
\* collection, last_n = 0, no penalty at all, m < 1.
Degenerate(s, L) ==
    \/ L.logits = <<>>
    \/ s.kind \in HistoryKinds /\ s.last_n = 0
    \/ s.kind = "repetition" /\ s.repetition_penalty = 1
    \/ s.kind = "freq_presence" /\ s.frequency_penalty = 0 /\ s.presence_penalty = 0
    \/ s.kind = "seq_repetition" /\ s.flat_penalty = 0 /\ s.stacking_penalty = 0
    \/ s.kind = "mirostat1" /\ s.m < 1

MissingResourceErrors ==
    {"MissingResource(rng)", "MissingResource(last_tokens)",
     "MissingResource(dyn_mut(logits))"}

\* C27: a call of a sampler that needs the RNG or the history fails with
\* MissingResource exactly when the provider lacks the resource and the
\* call is not short-circuited; a short-circuited call succeeds; and with a
\* provider that lacks the resource nothing is drawn and no entry changes.
C27_MissingResourceExactly ==
    ret.op = "sample" =>
        /\ (~ret.ok /\ ret.err \in MissingResourceErrors)
               <=> (Lacking(ret.sampler, res) /\ ~Degenerate(ret.sampler, ret.before))
        /\ Degenerate(ret.sampler, ret.before) => ret.ok
        /\ Lacking(ret.sampler, res) =>
               /\ ret.draws = <<>>
               /\ ret.sampler.kind \in HistoryKinds => logits = ret.before

\* C29: a successful call of Mirostat v2, Mirostat v1 or RandDistrib on a
\* non-empty collection makes exactly one weighted random draw; the token
\* it reports is the one that draw selected, and an entry of the returned
\* collection has that token id.
C29_OneDrawPerCall ==
    (/\ ret.op = "sample"
     /\ ret.sampler.kind \in RngKinds
     /\ ret.ok
     /\ ret.before.logits # <<>>) =>
        /\ Len(ret.draws) = 1
        /\ ret.token = Some(ret.draws[1])
        /\ \E i \in 1..Len(logits.logits) : logits.logits[i].token_id = ret.draws[1]

\* The call was a no-op by the rules of the sampler: an empty collection,
\* or m < 1 for Mirostat v1.
MirostatNoOp ==
    \/ ret.before.logits = <<>>
    \/ (ret.sampler.kind = "mirostat1" /\ ret.sampler.m < 1)

MirostatCall == ret.op = "sample" /\ ret.sampler.kind \in {"mirostat1", "mirostat2"}

\* C30: over the calls of a Mirostat v1 or v2 sampler, mu changes only in
\* a call that selects a token; a call that fails or is a no-op (empty
\* collection, m < 1) leaves mu, tau and eta as they were and leaves the
\* sampler reporting no token, whatever an earlier call selected.
C30_MuChangesOnlyOnSelection ==
    MirostatCall =>
        /\ samp = ret.after
        /\ samp.mu # ret.sampler.mu => (ret.ok /\ IsSome(sampled_token_id(samp)))
        /\ (~ret.ok \/ MirostatNoOp) =>
               /\ samp.mu = ret.sampler.mu
               /\ samp.tau = ret.sampler.tau
               /\ samp.eta = ret.sampler.eta
               /\ sampled_token_id(samp) = None

\* C30 witness: a Mirostat sampler whose earlier call selected a token and
\* moved mu away from tau * 2 is called again and fails on invalid weights:
\* mu is what it was before the call and no token is reported.
C30_Witness ==
    /\ MirostatCall
    /\ ~ret.ok
    /\ ret.err = "RandWeightedError"
    /\ IsSome(ret.sampler.token)
    /\ ret.sampler.mu # ret.sampler.tau * 2
    /\ samp.mu = ret.sampler.mu
    /\ sampled_token_id(samp) = None

(***************************************************************************)
(* SpecChain: a failing SamplerChain::sample.                              *)
(***************************************************************************)
\* C28: after a SamplerChain::sample call that failed at some stage,
\* sampled_token_id() of the chain is empty, also when an earlier stage of
\* that call reported a selection or a previous call produced a token.
C28_FailedChainReportsNoToken ==
    (ret.op = "chain_sample" /\ ~ret.ok) => chain.token = None

====
